---- MODULE Spec2Model ----
(***************************************************************************)
(* Camera HAL v3.4 over V4L2: the per-camera request/result pipeline of    *)
(* default_camera_hal::Camera (modules/camera/3_4/camera.cpp) together     *)
(* with the V4L2Camera hooks it calls (modules/camera/3_4/v4l2_camera.cpp, *)
(* v4l2_camera.h, v4l2_wrapper.cpp).                                       *)
(***************************************************************************)
EXTENDS Integers, Sequences, FiniteSets, TLC

(* ---------------------------------------------------------------------- *)
(* Bounds of the model.                                                    *)
(* ---------------------------------------------------------------------- *)
\* Number of capture requests the framework submits (frame numbers 1..MaxFrames).
MaxFrames == 2
\* Largest number of output buffers in one capture request.
MaxBufs == 1
\* Largest number of streams in one stream configuration.
MaxStreams == 2
\* Number of graphics buffer handles the framework lends.
MaxHandles == 2
\* Largest number of buffers queued on the driver at once.
MaxQueued == 2
\* Number of framework threads that call into the camera.
MaxThreads == 2

(* ---------------------------------------------------------------------- *)
(* Program constants.                                                      *)
(* ---------------------------------------------------------------------- *)
EIO == 5
EBUSY == 16
ENODEV == 19
EINVAL == 22
ETIME == 62
ENOTTY == 25

\* std::numeric_limits<int32_t>::max()
INT32_MAX == 2147483647

\* V4L2Camera::initCharacteristics: stream-count limits of the device.
mMaxRawOutputStreams == 0
mMaxStallingOutputStreams == 1
mMaxNonStallingOutputStreams == 2
mMaxInputStreams == 0

\* V4L2Camera::getResultSettings: the spoofed frame time.
frame_time == 1

\* camera3.h enumerators, kept symbolic.
CAMERA3_STREAM_ROTATION_0 == 0
CAMERA3_STREAM_CONFIGURATION_NORMAL_MODE == 0

\* The null pointer; Stream pointers are 1, 2, ...
NULL == 0

\* camera3.h: the request templates.
CAMERA3_TEMPLATE_PREVIEW == 1
CAMERA3_TEMPLATE_STILL_CAPTURE == 2
CAMERA3_TEMPLATE_VIDEO_RECORD == 3
CAMERA3_TEMPLATE_VIDEO_SNAPSHOT == 4
CAMERA3_TEMPLATE_ZERO_SHUTTER_LAG == 5
CAMERA3_TEMPLATE_MANUAL == 6
CAMERA3_TEMPLATE_COUNT == 7

(* ---------------------------------------------------------------------- *)
(* State.                                                                  *)
(* ---------------------------------------------------------------------- *)
VARIABLES
    mBusy,          \* Camera::mBusy: the device is open
    mConnection,    \* V4L2Camera::mConnection: "none", or a Connection and its status
    device_fd,      \* V4L2Wrapper::device_fd_ is a valid descriptor (connected())
    mCallbackOps,   \* Camera::mCallbackOps is set
    mSettingsSet,   \* Camera::mSettingsSet
    mStreams,       \* Camera::mStreams: the array of Stream pointers
    mNumStreams,    \* Camera::mNumStreams
    heap,           \* the Stream objects, by pointer
    request_queue,  \* V4L2Camera::request_queue_
    in_flight,      \* V4L2Camera::in_flight_
    nextFrame,      \* the frame number the framework gives its next request
    callbacks,      \* the calls made on the framework's callback table, in order
    extended_query_supported_,  \* V4L2Wrapper::extended_query_supported_
    format_,        \* V4L2Wrapper::format_: the cached StreamFormat, or none
    max_buffers_,   \* V4L2Wrapper::max_buffers_
    gralloc_,       \* the buffers the gralloc helper holds locked
    driver,         \* the V4L2 driver behind device_fd_: stream state and buffer queue
    capture,        \* the position of each thread inside V4L2Camera::enqueueBuffer
    mStaticInfo,    \* Camera::mStaticInfo is set
    mTemplates,     \* Camera::mTemplates: which template blocks are set
    mStaticInfoLock,\* the thread that holds Camera::mStaticInfoLock, or NULL
    callers,        \* the position of each thread inside getInfo,
                    \* constructDefaultRequestSettings, configureStreams or
                    \* processCaptureRequest
    inits,          \* how many times each cached metadata block has been built
    device_lock_,   \* the thread that holds V4L2Wrapper::device_lock_, or NULL
    wrapperCalls,   \* the position of each thread inside a V4L2Wrapper method
    errno,          \* errno of the thread that calls the wrapper
    components_,    \* Metadata::components_: the registry of partial components
    controls_,      \* the value the driver holds for each V4L2 control
    lastOp          \* the operation that produced this state, its input and result

devVars == <<mBusy, mConnection, device_fd>>
streamVars == <<mStreams, mNumStreams, heap>>
pipeVars == <<request_queue, in_flight, nextFrame, callbacks>>
\* The state of the camera object above the wrapper.
cameraVars == <<mBusy, mConnection, mCallbackOps, mSettingsSet, streamVars, pipeVars>>
wrapVars == <<extended_query_supported_, format_, max_buffers_, gralloc_, driver>>
infoVars == <<mStaticInfo, mTemplates, mStaticInfoLock, callers, inits>>
\* The device lock and the threads inside the wrapper; errno.
registryVars == <<components_, controls_>>
metaVars == <<device_lock_, wrapperCalls, errno, registryVars>>
auxVars == <<wrapVars, capture, infoVars, metaVars>>

\* The framework threads.
Threads == 1..MaxThreads
vars == <<mBusy, mConnection, device_fd, mCallbackOps, mSettingsSet,
          mStreams, mNumStreams, heap,
          request_queue, in_flight, nextFrame, callbacks,
          extended_query_supported_, format_, max_buffers_, gralloc_, driver,
          capture, mStaticInfo, mTemplates, mStaticInfoLock, callers, inits,
          device_lock_, wrapperCalls, errno, components_, controls_,
          lastOp>>

(* ---------------------------------------------------------------------- *)
(* Helpers on sequences.                                                   *)
(* ---------------------------------------------------------------------- *)
Range(s) == {s[i] : i \in 1..Len(s)}

SeqsUpTo(S, n) == UNION {[1..k -> S] : k \in 0..n}

(* ---------------------------------------------------------------------- *)
(* Streams (stream.h objects, referenced by pointer).                      *)
(* ---------------------------------------------------------------------- *)
StreamIds == 1..(2 * MaxStreams)

\* A freed Stream object.
Dead == [alive |-> FALSE]

StreamTypes == {"OUTPUT", "INPUT", "BIDIRECTIONAL"}
Formats == {"YCbCr_420_888", "BLOB", "RAW16", "UNKNOWN"}

\* The fields of a camera3_stream_t the framework fills in.
BaseDesc ==
    [stream_type |-> "OUTPUT", format |-> "YCbCr_420_888",
     width |-> 640, height |-> 480, rotation |-> CAMERA3_STREAM_ROTATION_0]

\* The stream descriptions the framework asks for: the base one and every
\* description that differs from it in one field.
StreamDescs ==
    {BaseDesc,
     [BaseDesc EXCEPT !.stream_type = "INPUT"],
     [BaseDesc EXCEPT !.format = "BLOB"],
     [BaseDesc EXCEPT !.width = 320],
     [BaseDesc EXCEPT !.height = 240],
     [BaseDesc EXCEPT !.rotation = 90]}

\* Stream::Stream(id, astream): a new Stream object for a camera3_stream_t.
NewStream(d) ==
    [alive |-> TRUE, stream_type |-> d.stream_type, format |-> d.format,
     width |-> d.width, height |-> d.height, rotation |-> d.rotation,
     mReuse |-> FALSE, usage |-> {}, max_buffers |-> 0, data_space |-> "UNSET"]

StreamObjects == {Dead} \cup
    [alive : {TRUE}, stream_type : StreamTypes, format : Formats,
     width : {320, 640}, height : {240, 480}, rotation : {0, 90},
     mReuse : BOOLEAN, usage : SUBSET {"SW_WRITE_OFTEN", "SW_READ_OFTEN"},
     max_buffers : 0..2, data_space : {"UNSET", "V0_JFIF"}]

isInputType(s) == s.stream_type \in {"INPUT", "BIDIRECTIONAL"}
isOutputType(s) == s.stream_type \in {"OUTPUT", "BIDIRECTIONAL"}

\* Stream::isValidReuseStream: the parameters asked for match the stream's.
isValidReuseStream(s, d) ==
    /\ s.stream_type = d.stream_type
    /\ s.format = d.format
    /\ s.width = d.width
    /\ s.height = d.height

\* StreamFormat::Category of a HAL pixel format.
Category(format) ==
    CASE format = "RAW16" -> "kFormatCategoryRaw"
      [] format = "BLOB" -> "kFormatCategoryStalling"
      [] format = "YCbCr_420_888" -> "kFormatCategoryNonStalling"
      [] OTHER -> "kFormatCategoryUnknown"


IsRawOut(s) == isOutputType(s) /\ Category(s.format) = "kFormatCategoryRaw"
\* RAW falls through into the stalling case of the switch.
IsStallingOut(s) ==
    isOutputType(s) /\ Category(s.format) \in {"kFormatCategoryRaw", "kFormatCategoryStalling"}
IsNonStallingOut(s) == isOutputType(s) /\ Category(s.format) = "kFormatCategoryNonStalling"
IsUnknownOut(s) == isOutputType(s) /\ Category(s.format) = "kFormatCategoryUnknown"

\* Stream object s counts as kind in the tallies of the stream set checks.
StreamIs(s, kind) ==
    CASE kind = "input" -> isInputType(s)
      [] kind = "output" -> isOutputType(s)
      [] kind = "raw" -> IsRawOut(s)
      [] kind = "stalling" -> IsStallingOut(s)
      [] kind = "non_stalling" -> IsNonStallingOut(s)
      [] kind = "unknown" -> IsUnknownOut(s)

\* The number of stream pointers of the array ns of the kind in heap h.
CountStreams(ns, h, kind) ==
    Cardinality({i \in 1..Len(ns) : StreamIs(h[ns[i]], kind)})

\* isSupportedStreamSet without the comparison of the widths.
isSupportedStreamSet_NoWidthCheck(ns, h, mode) ==
    /\ mode = CAMERA3_STREAM_CONFIGURATION_NORMAL_MODE
    /\ Len(ns) >= 1
    /\ CountStreams(ns, h, "unknown") = 0
    /\ ~ \/ CountStreams(ns, h, "input") > mMaxInputStreams
         \/ CountStreams(ns, h, "raw") > mMaxRawOutputStreams
         \/ CountStreams(ns, h, "stalling") > mMaxStallingOutputStreams
         \/ CountStreams(ns, h, "non_stalling") > mMaxNonStallingOutputStreams
    /\ \A i \in 2..Len(ns) :
          ~ \/ h[ns[i]].format # h[ns[1]].format
            \/ h[ns[i]].height # h[ns[1]].height

\* V4L2Camera::isSupportedStreamSet
isSupportedStreamSet(ns, h, mode) ==
    /\ mode = CAMERA3_STREAM_CONFIGURATION_NORMAL_MODE
    /\ Len(ns) >= 1
    /\ CountStreams(ns, h, "unknown") = 0
    /\ ~ \/ CountStreams(ns, h, "input") > mMaxInputStreams
         \/ CountStreams(ns, h, "raw") > mMaxRawOutputStreams
         \/ CountStreams(ns, h, "stalling") > mMaxStallingOutputStreams
         \/ CountStreams(ns, h, "non_stalling") > mMaxNonStallingOutputStreams
    /\ \A i \in 2..Len(ns) :
          ~ \/ h[ns[i]].format # h[ns[1]].format
            \/ h[ns[i]].width # h[ns[1]].width
            \/ h[ns[i]].height # h[ns[1]].height

\* Camera::isValidStreamSet
isValidStreamSet(ns, h, mode) ==
    /\ Len(ns) # 0
    /\ ~ (CountStreams(ns, h, "output") < 1)
    /\ ~ (CountStreams(ns, h, "input") > 1)
    /\ isSupportedStreamSet(ns, h, mode)

\* The camera3_stream_t fields that describe the Stream object s.
DescOf(s) ==
    [stream_type |-> s.stream_type, format |-> s.format,
     width |-> s.width, height |-> s.height, rotation |-> s.rotation]

\* The same description with another width.
OtherWidth(d) == [d EXCEPT !.width = IF d.width = 640 THEN 320 ELSE 640]

\* operator new: the lowest free slot of the heap.
NewId(h) == CHOOSE id \in StreamIds :
    /\ ~h[id].alive
    /\ \A j \in StreamIds : ~h[j].alive => id <= j

\* Camera::configureStreams, "Mark all current streams unused for now".
MarkUnused(h, streams) ==
    [id \in StreamIds |->
        IF id \in Range(streams) /\ h[id].alive THEN [h[id] EXCEPT !.mReuse = FALSE]
        ELSE h[id]]

\* Camera::configureStreams, the loop that fills the new stream array from
\* entry i of the configuration on (Camera::reuseStream for max_buffers > 0,
\* new Stream otherwise). It stops at the first entry whose stream is NULL;
\* the entries of the array after that one are never assigned.
RECURSIVE FillNewStreams(_, _, _, _)
FillNewStreams(cfg, i, h, ns) ==
    IF i > Len(cfg) THEN [failed |-> FALSE, heap |-> h, newStreams |-> ns]
    ELSE IF cfg[i].reuse
         THEN IF ~isValidReuseStream(h[cfg[i].priv], cfg[i].desc)
              THEN [failed |-> TRUE, heap |-> h, newStreams |-> Append(ns, NULL)]
              ELSE FillNewStreams(cfg, i + 1,
                                  [h EXCEPT ![cfg[i].priv].mReuse = TRUE],
                                  Append(ns, cfg[i].priv))
         ELSE LET id == NewId(h) IN
              FillNewStreams(cfg, i + 1,
                             [h EXCEPT ![id] = NewStream(cfg[i].desc)],
                             Append(ns, id))

\* Camera::destroyStreams: delete every stream of the array that is not NULL
\* and not marked for reuse. An entry that points at freed memory leaves the
\* heap as it is.
RECURSIVE destroyStreams(_, _)
destroyStreams(streams, h) ==
    IF streams = <<>> THEN h
    ELSE LET p == Head(streams) IN
         destroyStreams(Tail(streams),
             IF p # NULL /\ h[p].alive /\ ~h[p].mReuse
             THEN [h EXCEPT ![p] = Dead] ELSE h)

\* What V4L2Wrapper::SetFormat may answer: a result and the buffer count.
SetFormatOutcomes ==
    {[res |-> 0, max_buffers |-> 1], [res |-> 0, max_buffers |-> 0],
     [res |-> -EINVAL, max_buffers |-> 0], [res |-> -ENODEV, max_buffers |-> 0]}

\* V4L2Camera::setupStream on stream object s with SetFormat answering o.
setupStream(s, o) ==
    IF s.rotation # CAMERA3_STREAM_ROTATION_0 THEN [res |-> -EINVAL, stream |-> s]
    ELSE LET s1 == [s EXCEPT !.data_space = "V0_JFIF"] IN
         IF o.res # 0 THEN [res |-> o.res, stream |-> s1]
         ELSE IF o.max_buffers < 1 THEN [res |-> -ENODEV, stream |-> s1]
         ELSE [res |-> 0, stream |-> [s1 EXCEPT !.max_buffers = o.max_buffers]]

\* Camera::setupStreams from entry i on; outs[i] is SetFormat's answer for it.
RECURSIVE setupStreams(_, _, _, _)
setupStreams(ns, i, h, outs) ==
    IF i > Len(ns) THEN [res |-> 0, heap |-> h]
    ELSE LET s == h[ns[i]]
             usage == (IF isOutputType(s) THEN {"SW_WRITE_OFTEN"} ELSE {})
                      \cup (IF isInputType(s) THEN {"SW_READ_OFTEN"} ELSE {})
             r == setupStream([s EXCEPT !.usage = usage], outs[i])
             h1 == [h EXCEPT ![ns[i]] = r.stream]
         IN IF r.res # 0 THEN [res |-> r.res, heap |-> h1]
            ELSE setupStreams(ns, i + 1, h1, outs)

\* The entries a stream configuration may hold in the current state, for
\* the stream descriptions descs: a new camera3_stream_t (max_buffers = 0),
\* or one of the configured streams (max_buffers > 0, priv set) with its
\* parameters kept or changed.
ConfigEntries(descs) ==
    {[reuse |-> FALSE, priv |-> NULL, desc |-> d] : d \in descs}
    \cup {[reuse |-> TRUE, priv |-> mStreams[i], desc |-> DescOf(heap[mStreams[i]])] :
            i \in 1..mNumStreams}
    \cup {[reuse |-> TRUE, priv |-> mStreams[i],
           desc |-> OtherWidth(DescOf(heap[mStreams[i]]))] : i \in 1..mNumStreams}

\* The configurations the framework passes: no configured stream twice.
Configs(descs, n) ==
    {c \in SeqsUpTo(ConfigEntries(descs), n) :
        \A i, j \in 1..Len(c) : (i # j /\ c[i].reuse /\ c[j].reuse) => c[i].priv # c[j].priv}

\* What the caller asked for: the streams of cfg include an output stream,
\* include no input stream, and all have the same format, width and height.
ConfigSummary(cfg) ==
    /\ \E i \in 1..Len(cfg) : isOutputType(cfg[i].desc)
    /\ ~ \E i \in 1..Len(cfg) : isInputType(cfg[i].desc)
    /\ \A i, j \in 1..Len(cfg) :
          /\ cfg[i].desc.format = cfg[j].desc.format
          /\ cfg[i].desc.width = cfg[j].desc.width
          /\ cfg[i].desc.height = cfg[j].desc.height

(* ---------------------------------------------------------------------- *)
(* Opening and closing the device.                                         *)
(* ---------------------------------------------------------------------- *)
\* What open(2) on the device node may answer: 0, or -errno.
OpenResults == {0, -ENODEV, -EBUSY}

\* V4L2Wrapper::Connect with open(2) answering o: the result and device_fd_.
Connect(fd, o) ==
    IF fd THEN [res |-> -EIO, device_fd |-> fd]
    ELSE IF o < 0 THEN [res |-> o, device_fd |-> fd]
    ELSE [res |-> 0, device_fd |-> TRUE]

\* V4L2Camera::connect: the result, mConnection and device_fd_ after it.
\* A Connection connects the wrapper when it is made and keeps the status.
connect(conn, fd, o) ==
    IF conn # "none" THEN [res |-> -EIO, mConnection |-> conn, device_fd |-> fd]
    ELSE LET c == Connect(fd, o) IN
         [res |-> c.res,
          mConnection |-> IF c.res = 0 THEN "connected" ELSE "failed",
          device_fd |-> c.device_fd]

\* V4L2Camera::disconnect: mConnection.reset(); a Connection whose status is
\* 0 disconnects the wrapper when it goes (V4L2Wrapper::Disconnect).
disconnect(conn, fd) ==
    [mConnection |-> "none",
     device_fd |-> IF conn = "connected" THEN FALSE ELSE fd]

\* openDevice without the check of mBusy.
OpenDevice_NoBusyCheck ==
    \E o \in OpenResults :
        LET c == connect(mConnection, device_fd, o) IN
        /\ mConnection' = c.mConnection
        /\ device_fd' = c.device_fd
        /\ mBusy' = (c.res = 0)
        /\ lastOp' = [op |-> "openDevice", ret |-> c.res, calls |-> {"connect"}]
        /\ UNCHANGED <<mCallbackOps, mSettingsSet, streamVars, pipeVars, auxVars>>

\* Camera::openDevice
OpenDevice ==
    \E o \in OpenResults :
        IF mBusy
        THEN /\ lastOp' = [op |-> "openDevice", ret |-> -EBUSY, calls |-> {}]
             /\ UNCHANGED <<devVars, mCallbackOps, mSettingsSet, streamVars, pipeVars, auxVars>>
        ELSE LET c == connect(mConnection, device_fd, o) IN
             /\ mConnection' = c.mConnection
             /\ device_fd' = c.device_fd
             /\ mBusy' = (c.res = 0)
             /\ lastOp' = [op |-> "openDevice", ret |-> c.res, calls |-> {"connect"}]
             /\ UNCHANGED <<mCallbackOps, mSettingsSet, streamVars, pipeVars, auxVars>>

\* Camera::close
Close ==
    IF ~mBusy
    THEN /\ lastOp' = [op |-> "close", ret |-> -EINVAL, calls |-> {}]
         /\ UNCHANGED <<devVars, mCallbackOps, mSettingsSet, streamVars, pipeVars, auxVars>>
    ELSE LET d == disconnect(mConnection, device_fd) IN
         /\ mConnection' = d.mConnection
         /\ device_fd' = d.device_fd
         /\ mBusy' = FALSE
         /\ lastOp' = [op |-> "close", ret |-> 0, calls |-> {"disconnect"}]
         /\ UNCHANGED <<mCallbackOps, mSettingsSet, streamVars, pipeVars, auxVars>>

\* Camera::initialize on the opened device; initDevice may fail.
Initialize ==
    /\ mBusy
    /\ mCallbackOps' = TRUE
    /\ \E res \in {0, -ENODEV} : lastOp' = [op |-> "initialize", ret |-> res]
    /\ UNCHANGED <<devVars, mSettingsSet, streamVars, pipeVars, auxVars>>

(* ---------------------------------------------------------------------- *)
(* Camera::configureStreams                                                *)
(* ---------------------------------------------------------------------- *)
Modes == {CAMERA3_STREAM_CONFIGURATION_NORMAL_MODE, 1}

\* The err_out path: the new array is destroyed, mStreams stays.  Of the
\* entries of arr the first assigned ones were stored by this call.
ConfigureFail(cfg, arr, assigned, h, res) ==
    /\ heap' = destroyStreams(arr, h)
    /\ UNCHANGED <<mStreams, mNumStreams>>
    /\ lastOp' = [op |-> "configureStreams", ret |-> IF res = 0 THEN -EINVAL ELSE res,
                  null |-> FALSE, set_ok |-> ConfigSummary(cfg),
                  unassigned |-> Len(arr) - assigned,
                  reused_destroyed |->
                      {id \in StreamIds : /\ h[id].alive /\ h[id].mReuse
                                          /\ ~destroyStreams(arr, h)[id].alive}]

\* The success path: the old streams are destroyed and the array replaced.
ConfigureDone(cfg, ns, h) ==
    /\ heap' = destroyStreams(mStreams, h)
    /\ mStreams' = ns
    /\ mNumStreams' = Len(cfg)
    /\ lastOp' = [op |-> "configureStreams", ret |-> 0,
                  null |-> FALSE, set_ok |-> ConfigSummary(cfg)]

\* Camera::configureStreams from the taking of mDeviceLock on.  A call made
\* while mStreams holds a freed Stream dereferences it and does not return;
\* the model has no step for it.
ConfigureStreamsLocked(descs, n) ==
    /\ mBusy
    /\ \A i \in 1..mNumStreams : heap[mStreams[i]].alive
    /\ \/ /\ lastOp' = [op |-> "configureStreams", ret |-> -EINVAL,
                        null |-> TRUE, set_ok |-> FALSE]
          /\ UNCHANGED streamVars
       \/ \E cfg \in Configs(descs, n) :
            IF Len(cfg) = 0
            THEN /\ lastOp' = [op |-> "configureStreams", ret |-> -EINVAL,
                               null |-> FALSE, set_ok |-> ConfigSummary(cfg)]
                 /\ UNCHANGED streamVars
            ELSE LET f == FillNewStreams(cfg, 1, MarkUnused(heap, mStreams), <<>>) IN
                 IF f.failed
                 THEN \* entries after the failing one hold whatever the
                      \* allocation left there: NULL, or a stale pointer to
                      \* one of the configured streams
                      \E g \in [1..(Len(cfg) - Len(f.newStreams)) ->
                                    {NULL} \cup Range(mStreams)] :
                          ConfigureFail(cfg, f.newStreams \o g, Len(f.newStreams), f.heap, 0)
                 ELSE \E mode \in Modes :
                      IF ~isValidStreamSet(f.newStreams, f.heap, mode)
                      THEN ConfigureFail(cfg, f.newStreams, Len(cfg), f.heap, 0)
                      ELSE \E outs \in [1..Len(cfg) -> SetFormatOutcomes] :
                          LET su == setupStreams(f.newStreams, 1, f.heap, outs) IN
                          IF su.res # 0
                          THEN ConfigureFail(cfg, f.newStreams, Len(cfg), su.heap, su.res)
                          ELSE ConfigureDone(cfg, f.newStreams, su.heap)

\* The same, called while no other thread is inside the camera.
ConfigureStreamsFrom(descs, n) ==
    /\ ConfigureStreamsLocked(descs, n)
    /\ UNCHANGED <<devVars, mCallbackOps, pipeVars, auxVars>>

\* configureStreams that keeps mSettingsSet.
ConfigureStreamsOf_KeepSettings(descs, n) ==
    /\ mSettingsSet' = mSettingsSet
    /\ ConfigureStreamsFrom(descs, n)

\* Camera::configureStreams on a list of at most n of the descriptions:
\* mSettingsSet is cleared first, whatever comes of the call.
ConfigureStreamsOf(descs, n) ==
    /\ mSettingsSet' = FALSE
    /\ ConfigureStreamsFrom(descs, n)

\* configure_streams with up to MaxStreams of the stream descriptions.
ConfigureStreams == ConfigureStreamsOf(StreamDescs, MaxStreams)

\* configure_streams as the capture pipeline needs it: the base stream alone.
ConfigureBaseStream == ConfigureStreamsOf({BaseDesc}, 1)

(* ---------------------------------------------------------------------- *)
(* Capture requests.                                                       *)
(* ---------------------------------------------------------------------- *)
\* The settings of a submitted request: none, settings the metadata
\* registry accepts, or settings it rejects.
SettingsKinds == {"empty", "good", "bad"}

\* The acquire fence of a submitted output buffer: none (-1), or a fence on
\* which sync_wait answers 0, -ETIME or another error.
FenceKinds == {"none", "signaled", "timeout", "error"}

\* The input buffers a request may carry: one needs a configured input stream.
InputBuffers ==
    {NULL} \cup {mStreams[j] : j \in {i \in 1..mNumStreams :
                                  heap[mStreams[i]].alive /\ isInputType(heap[mStreams[i]])}}

\* The acquire fences of the output buffers of a request: all signaled, but
\* for at most one buffer of any other kind.
OutputFences ==
    {f \in SeqsUpTo(FenceKinds, MaxBufs) :
        Cardinality({i \in 1..Len(f) : f[i] # "signaled"}) <= 1}

\* The camera3_capture_request_t the framework passes (NULL aside).
Requests ==
    [settings : SettingsKinds, fences : OutputFences, input_buffer : InputBuffers]

\* CaptureRequest::CaptureRequest: the persistent copy of the request.
CaptureRequest(r, frame) ==
    [frame_number |-> frame,
     settings |-> [kind |-> r.settings, timestamp |-> <<>>],
     output_buffers |-> [i \in 1..Len(r.fences) |->
         [status |-> "UNSET",
          acquire_fence |-> IF r.fences[i] = "none" THEN -1 ELSE i,
          release_fence |-> -1]],
     input_buffer |-> r.input_buffer]

\* sync_wait on the acquire fence of a buffer submitted with fence kind k.
sync_wait(k) ==
    CASE k = "timeout" -> -ETIME
      [] k = "error" -> -EINVAL
      [] OTHER -> 0

\* Camera::preprocessCaptureBuffer: the result and the buffer after it.
preprocessCaptureBuffer(buffer, k) ==
    IF buffer.acquire_fence # -1 /\ sync_wait(k) # 0
    THEN [res |-> sync_wait(k), buffer |-> buffer]
    ELSE [res |-> 0,
          buffer |-> [buffer EXCEPT !.acquire_fence = -1, !.release_fence = -1,
                                    !.status = "CAMERA3_BUFFER_STATUS_OK"]]

\* V4L2Camera::isValidRequest: the metadata registry accepts the settings;
\* empty settings name no tag and are accepted.
isValidRequest(request) == request.settings.kind # "bad"

\* V4L2Camera::enqueueRequest: the request joins the waiting queue.
enqueueRequest(q, request) == Append(q, request)

\* processCaptureRequest without the check of the number of output buffers.
processCaptureRequest_NoOutputCheck(request, fences, settingsSet, q) ==
    IF request.settings.kind = "empty" /\ ~settingsSet
    THEN [ret |-> -EINVAL, mSettingsSet |-> settingsSet, request_queue |-> q]
    ELSE IF ~isValidRequest(request)
    THEN [ret |-> -EINVAL, mSettingsSet |-> settingsSet, request_queue |-> q]
    ELSE IF \E i \in 1..Len(fences) :
                preprocessCaptureBuffer(request.output_buffers[i], fences[i]).res # 0
    THEN [ret |-> -ENODEV, mSettingsSet |-> TRUE, request_queue |-> q]
    ELSE [ret |-> 0, mSettingsSet |-> TRUE,
          request_queue |-> enqueueRequest(q,
              [request EXCEPT !.output_buffers =
                  [i \in 1..Len(fences) |->
                      preprocessCaptureBuffer(request.output_buffers[i], fences[i]).buffer]])]

\* Camera::processCaptureRequest from the copy of the request on: the
\* result, mSettingsSet and the waiting queue after the call.
processCaptureRequest(request, fences, settingsSet, q) ==
    IF request.settings.kind = "empty" /\ ~settingsSet
    THEN [ret |-> -EINVAL, mSettingsSet |-> settingsSet, request_queue |-> q]
    ELSE IF ~isValidRequest(request)
    THEN [ret |-> -EINVAL, mSettingsSet |-> settingsSet, request_queue |-> q]
    ELSE IF Len(request.output_buffers) <= 0
    THEN [ret |-> -EINVAL, mSettingsSet |-> TRUE, request_queue |-> q]
    ELSE IF \E i \in 1..Len(fences) :
                preprocessCaptureBuffer(request.output_buffers[i], fences[i]).res # 0
    THEN [ret |-> -ENODEV, mSettingsSet |-> TRUE, request_queue |-> q]
    ELSE [ret |-> 0, mSettingsSet |-> TRUE,
          request_queue |-> enqueueRequest(q,
              [request EXCEPT !.output_buffers =
                  [i \in 1..Len(fences) |->
                      preprocessCaptureBuffer(request.output_buffers[i], fences[i]).buffer]])]

\* The camera3_stream_buffer_t structures a caller can hand to
\* preprocessCaptureBuffer: the fence fields hold -1 or a descriptor.
FenceFds == {3, 4, 5}
BufferStatuses == {"UNSET", "CAMERA3_BUFFER_STATUS_OK", "CAMERA3_BUFFER_STATUS_ERROR"}
StreamBuffers ==
    [status : BufferStatuses, acquire_fence : {-1} \cup FenceFds,
     release_fence : {-1} \cup FenceFds]

\* Camera::preprocessCaptureBuffer is called on a buffer.
PreprocessCaptureBuffer ==
    /\ \E buffer \in StreamBuffers :
         \E k \in (IF buffer.acquire_fence = -1 THEN {"none"} ELSE FenceKinds \ {"none"}) :
            LET p == preprocessCaptureBuffer(buffer, k) IN
            lastOp' = [op |-> "preprocessCaptureBuffer", before |-> buffer,
                       fence |-> k, ret |-> p.res, buffer |-> p.buffer]
    /\ UNCHANGED <<devVars, mCallbackOps, mSettingsSet, streamVars, pipeVars, auxVars>>

\* The fence waits of processCaptureRequest: whether the call got as far as
\* the loop over the output buffers, and the result of the wait that ended
\* the loop (0 when every wait succeeded).
fenceWaits(request, fences, settingsSet) ==
    LET reached == /\ ~(request.settings.kind = "empty" /\ ~settingsSet)
                   /\ isValidRequest(request)
                   /\ Len(request.output_buffers) > 0
        failed == {i \in 1..Len(fences) :
                     preprocessCaptureBuffer(request.output_buffers[i], fences[i]).res # 0}
    IN [reached |-> reached,
        res |-> IF reached /\ failed # {}
                THEN LET i == CHOOSE i \in failed : \A j \in failed : i <= j
                     IN preprocessCaptureBuffer(request.output_buffers[i], fences[i]).res
                ELSE 0]

\* The framework submits requests to an opened and initialized device.
ProcessCaptureRequest ==
    /\ mBusy
    /\ mCallbackOps
    /\ nextFrame <= MaxFrames
    /\ UNCHANGED <<devVars, mCallbackOps, streamVars, in_flight, callbacks, auxVars>>
    /\ \/ /\ lastOp' = [op |-> "processCaptureRequest", ret |-> -EINVAL, null |-> TRUE]
          /\ UNCHANGED <<mSettingsSet, request_queue, nextFrame>>
       \/ \E r \in Requests :
            LET p == processCaptureRequest(CaptureRequest(r, nextFrame), r.fences,
                                           mSettingsSet, request_queue) IN
            /\ mSettingsSet' = p.mSettingsSet
            /\ request_queue' = p.request_queue
            /\ nextFrame' = IF p.ret = 0 THEN nextFrame + 1 ELSE nextFrame
            /\ lastOp' = [op |-> "processCaptureRequest", ret |-> p.ret, null |-> FALSE,
                          settings |-> r.settings,
                          no_output |-> (Len(r.fences) = 0),
                          wait |-> fenceWaits(CaptureRequest(r, nextFrame), r.fences,
                                              mSettingsSet)]

(* ---------------------------------------------------------------------- *)
(* Completing requests (Camera::completeRequest and what it calls).        *)
(* ---------------------------------------------------------------------- *)
\* v4l2_camera_hal::SingleTagValue on the values of a tag: exactly one value.
SingleTagValue(values) ==
    IF Len(values) = 1 THEN [res |-> 0, val |-> values[1]]
    ELSE [res |-> -EINVAL, val |-> 0]

\* notifyShutter that leaves the timestamp of the message at zero.
notifyShutter_ZeroTimestamp(cbs, frame_number, timestamp) ==
    Append(cbs, [type |-> "CAMERA3_MSG_SHUTTER", frame_number |-> frame_number,
                 timestamp |-> 0])

\* Camera::notifyShutter
notifyShutter(cbs, frame_number, timestamp) ==
    Append(cbs, [type |-> "CAMERA3_MSG_SHUTTER", frame_number |-> frame_number,
                 timestamp |-> timestamp])

\* sendResult that makes the callback only for a request with a timestamp.
sendResult_OnlyWithTimestamp(cbs, request) ==
    IF Len(request.settings.timestamp) # 1 THEN cbs
    ELSE Append(cbs, [type |-> "process_capture_result",
                      frame_number |-> request.frame_number,
                      result |-> request.settings,
                      num_output_buffers |-> Len(request.output_buffers),
                      output_buffers |-> request.output_buffers,
                      input_buffer |-> request.input_buffer,
                      partial_result |-> 1])

\* Camera::sendResult
sendResult(cbs, request) ==
    Append(cbs, [type |-> "process_capture_result",
                 frame_number |-> request.frame_number,
                 result |-> request.settings,
                 num_output_buffers |-> Len(request.output_buffers),
                 output_buffers |-> request.output_buffers,
                 input_buffer |-> request.input_buffer,
                 partial_result |-> 1])

\* completeRequestWithError that reports a device error.
completeRequestWithError_DeviceError(cbs, request) ==
    sendResult(Append(cbs, [type |-> "CAMERA3_MSG_ERROR",
                            frame_number |-> request.frame_number,
                            error_stream |-> NULL,
                            error_code |-> "CAMERA3_MSG_ERROR_DEVICE"]),
               request)

\* Camera::completeRequestWithError
completeRequestWithError(cbs, request) ==
    sendResult(Append(cbs, [type |-> "CAMERA3_MSG_ERROR",
                            frame_number |-> request.frame_number,
                            error_stream |-> NULL,
                            error_code |-> "CAMERA3_MSG_ERROR_REQUEST"]),
               request)

\* completeRequest that notifies the shutter before it looks for the
\* timestamp.
completeRequest_NotifyTwice(cbs, request, err) ==
    IF err # 0 THEN completeRequestWithError(cbs, request)
    ELSE LET t == SingleTagValue(request.settings.timestamp) IN
         IF t.res # 0
         THEN completeRequestWithError(notifyShutter(cbs, request.frame_number, t.val),
                                       request)
         ELSE sendResult(notifyShutter(cbs, request.frame_number, t.val), request)

\* Camera::completeRequest
completeRequest(cbs, request, err) ==
    IF err # 0 THEN completeRequestWithError(cbs, request)
    ELSE LET t == SingleTagValue(request.settings.timestamp) IN
         IF t.res # 0 THEN completeRequestWithError(cbs, request)
         ELSE sendResult(notifyShutter(cbs, request.frame_number, t.val), request)

(* ---------------------------------------------------------------------- *)
(* The workers of V4L2Camera.                                              *)
(* ---------------------------------------------------------------------- *)
\* What an operation on the V4L2 device may answer.
DeviceResults == {0, -ENODEV}

\* Filling the result metadata of a frame: with the frame time, without a
\* SENSOR_TIMESTAMP entry, or not at all.
FillResults == {"filled", "no_timestamp", "error"}

\* V4L2Camera::getResultSettings: the settings with the frame's timestamp.
getResultSettings(settings) == [settings EXCEPT !.timestamp = <<frame_time>>]

\* V4L2Camera::dequeueRequest: the head of the waiting queue.
dequeueRequest(q) == Head(q)

\* V4L2Camera::enqueueRequestBuffers: the enqueuer takes the next waiting
\* request and hands its buffer to the device; the request is then in
\* flight, or completed with the device's error.
EnqueueRequestBuffers ==
    /\ request_queue # <<>>
    /\ request_queue' = Tail(request_queue)
    /\ UNCHANGED <<devVars, mCallbackOps, mSettingsSet, streamVars, nextFrame, auxVars>>
    /\ \E res \in DeviceResults :
         LET request == dequeueRequest(request_queue) IN
         /\ IF res # 0
            THEN /\ callbacks' = completeRequest(callbacks, request, res)
                 /\ UNCHANGED in_flight
            ELSE /\ in_flight' = Append(in_flight, request)
                 /\ UNCHANGED callbacks
         /\ lastOp' = [op |-> "enqueueRequestBuffers", request |-> request,
                       err |-> res, completed |-> res # 0]

\* V4L2Camera::dequeueRequestBuffers: the dequeuer takes a filled buffer
\* from the device, fills the result metadata of the oldest request in
\* flight and completes it.
DequeueRequestBuffers ==
    /\ in_flight # <<>>
    /\ in_flight' = Tail(in_flight)
    /\ UNCHANGED <<devVars, mCallbackOps, mSettingsSet, streamVars, request_queue, nextFrame, auxVars>>
    /\ \E res \in DeviceResults, fill \in FillResults :
         LET head == Head(in_flight)
             err == IF res # 0 THEN res ELSE IF fill = "error" THEN -ENODEV ELSE 0
             request == IF err = 0 /\ fill = "filled"
                        THEN [head EXCEPT !.settings = getResultSettings(head.settings)]
                        ELSE head
         IN
         /\ callbacks' = completeRequest(callbacks, request, err)
         /\ lastOp' = [op |-> "dequeueRequestBuffers", request |-> request,
                       err |-> err, completed |-> TRUE]

(* ---------------------------------------------------------------------- *)
(* Static info and request templates.                                      *)
(* ---------------------------------------------------------------------- *)
\* The entries of Camera::mTemplates that a valid type selects.
TemplateTypes == 1..(CAMERA3_TEMPLATE_COUNT - 1)
\* The cached metadata blocks: mStaticInfo (0) and the templates.
Blocks == 0..(CAMERA3_TEMPLATE_COUNT - 1)
\* The template ids the framework may ask for.
RequestedTypes == (-1)..CAMERA3_TEMPLATE_COUNT
\* What building a metadata block from the device may answer.
InitResults == {0, -ENODEV}

\* Camera::isValidTemplateType
isValidTemplateType(type) == type > 0 /\ type < CAMERA3_TEMPLATE_COUNT

\* The templates the device builds; the others are skipped.
SupportedTemplates ==
    {CAMERA3_TEMPLATE_PREVIEW, CAMERA3_TEMPLATE_STILL_CAPTURE,
     CAMERA3_TEMPLATE_VIDEO_RECORD, CAMERA3_TEMPLATE_VIDEO_SNAPSHOT}

\* V4L2Camera::initTemplate with the device answering o: no template is
\* built for an unsupported id.
initTemplate(type, o) == IF type \in SupportedTemplates THEN o ELSE -EINVAL

\* constructDefaultRequestSettings that keeps the block whatever
\* initTemplate answers.
constructDefaultRequestSettings_KeepFailed(templates, type, o) ==
    IF ~isValidTemplateType(type) THEN [ret |-> NULL, mTemplates |-> templates, built |-> FALSE]
    ELSE [ret |-> type, mTemplates |-> [templates EXCEPT ![type] = TRUE],
          built |-> ~templates[type]]

\* Camera::constructDefaultRequestSettings: the block returned (NULL, or
\* the template, named by its type), mTemplates after the call, and whether
\* the call built the block.
constructDefaultRequestSettings(templates, type, o) ==
    IF ~isValidTemplateType(type)
    THEN [ret |-> NULL, mTemplates |-> templates, built |-> FALSE]
    ELSE IF ~templates[type]
    THEN IF initTemplate(type, o) # 0
         THEN [ret |-> NULL, mTemplates |-> templates, built |-> FALSE]
         ELSE [ret |-> type, mTemplates |-> [templates EXCEPT ![type] = TRUE],
               built |-> TRUE]
    ELSE [ret |-> type, mTemplates |-> templates, built |-> FALSE]

\* std::abs on int32_t values far from the limits.
Abs(x) == IF x < 0 THEN -x ELSE x

\* The frame durations (ns) a driver reports: 60, 30, 20, 15, 5 and 1 frames
\* per second, and one frame in two seconds.
FrameDurations ==
    {16666666, 33333333, 50000000, 66666666, 200000000, 1000000000, 2000000000}

\* The end of V4L2Camera::initCharacteristics: mFpsRanges from the smallest
\* maximal frame duration of all formats and the smallest minimal frame
\* duration of the YUV format.
initFpsRanges(max_frame_duration, min_yuv_frame_duration) ==
    LET min_yuv_fps == 1000000000 \div max_frame_duration
        max_yuv_fps == 1000000000 \div min_yuv_frame_duration
    IN IF min_yuv_fps > 15 THEN [res |-> -ENODEV, mFpsRanges |-> <<>>]
       ELSE [res |-> 0,
             mFpsRanges |-> << <<min_yuv_fps, max_yuv_fps>>, <<max_yuv_fps, max_yuv_fps>> >>
                            \o (IF max_yuv_fps > 30 THEN << <<30, 30>> >> ELSE <<>>)]

\* The distance of initTemplates between a range and the desired one.
fpsDistance(range, desired) ==
    Abs(range[1] - desired[1]) + Abs(range[2] - desired[2])

\* The loop of V4L2Camera::initTemplates over mFpsRanges for one desired
\* range: the first range whose distance is smaller than that of all
\* before it and of none after it; with flat_only only the ranges with
\* min = max take part.  The variable is left unassigned (<<>>) when no
\* range takes part.
closestFpsRange(ranges, desired, flat_only) ==
    LET taking == {i \in 1..Len(ranges) :
                      /\ flat_only => ranges[i][1] = ranges[i][2]
                      /\ fpsDistance(ranges[i], desired) < INT32_MAX}
    IN IF taking = {} THEN <<>>
       ELSE ranges[CHOOSE i \in taking : \A j \in taking :
                      \/ fpsDistance(ranges[i], desired) < fpsDistance(ranges[j], desired)
                      \/ /\ fpsDistance(ranges[i], desired) = fpsDistance(ranges[j], desired)
                         /\ i <= j]

\* templateFpsRange that gives every template the flat range.
templateFpsRange_AllFlat(ranges, template_id) ==
    IF template_id \in SupportedTemplates
    THEN closestFpsRange(ranges, <<30, 30>>, TRUE)
    ELSE <<>>

\* The switch of V4L2Camera::initTemplates: the value of
\* ANDROID_CONTROL_AE_TARGET_FPS_RANGE in a template; <<>> for a template
\* that is not built.
templateFpsRange(ranges, template_id) ==
    CASE template_id = CAMERA3_TEMPLATE_PREVIEW -> closestFpsRange(ranges, <<30, 30>>, TRUE)
      [] template_id = CAMERA3_TEMPLATE_STILL_CAPTURE -> closestFpsRange(ranges, <<5, 30>>, FALSE)
      [] template_id = CAMERA3_TEMPLATE_VIDEO_RECORD -> closestFpsRange(ranges, <<30, 30>>, TRUE)
      [] template_id = CAMERA3_TEMPLATE_VIDEO_SNAPSHOT -> closestFpsRange(ranges, <<30, 30>>, TRUE)
      [] OTHER -> <<>>

\* initCharacteristics and then initTemplates run on a driver; the fps range
\* of one template is looked at.
InitTemplatesFps ==
    /\ \E max_frame_duration \in FrameDurations, min_yuv_frame_duration \in FrameDurations,
          template_id \in TemplateTypes :
         LET c == initFpsRanges(max_frame_duration, min_yuv_frame_duration) IN
         lastOp' = [op |-> "initTemplates",
                    max_frame_duration |-> max_frame_duration,
                    min_yuv_frame_duration |-> min_yuv_frame_duration,
                    res |-> c.res, mFpsRanges |-> c.mFpsRanges,
                    template_id |-> template_id,
                    fps_range |-> IF c.res = 0
                                  THEN templateFpsRange(c.mFpsRanges, template_id)
                                  ELSE <<>>]
    /\ UNCHANGED <<devVars, mCallbackOps, mSettingsSet, streamVars, pipeVars, auxVars>>

\* Camera::constructDefaultRequestSettings, called by one thread at a time.
ConstructDefaultRequestSettings ==
    \E type \in RequestedTypes, o \in InitResults :
        LET r == constructDefaultRequestSettings(mTemplates, type, o) IN
        /\ mTemplates' = r.mTemplates
        /\ inits' = IF r.built THEN [inits EXCEPT ![type] = @ + 1] ELSE inits
        /\ lastOp' = [op |-> "constructDefaultRequestSettings", type |-> type,
                      ret |-> r.ret]
        /\ UNCHANGED <<device_fd, wrapVars, cameraVars, metaVars, capture,
                       mStaticInfo, mStaticInfoLock, callers>>

\* What reading facing and orientation from the static info may answer.
InfoResults == {0, -EINVAL, -ENODEV}

\* Camera::getInfo, called by one thread at a time: mStaticInfo is built if
\* it is not set, then facing and orientation are read from it.
GetInfo ==
    \E o \in InitResults, f \in InfoResults :
        /\ mStaticInfoLock = NULL
        /\ IF ~mStaticInfo /\ o # 0
           THEN /\ lastOp' = [op |-> "getInfo", ret |-> -ENODEV]
                /\ UNCHANGED <<mStaticInfo, inits>>
           ELSE /\ mStaticInfo' = TRUE
                /\ inits' = IF mStaticInfo THEN inits ELSE [inits EXCEPT ![0] = @ + 1]
                /\ lastOp' = [op |-> "getInfo", ret |-> f]
        /\ UNCHANGED <<device_fd, wrapVars, cameraVars, metaVars, capture,
                       mTemplates, mStaticInfoLock, callers>>

(* ---------------------------------------------------------------------- *)
(* getInfo and constructDefaultRequestSettings called from several threads, *)
(* one step per access to the shared state.                                *)
(* ---------------------------------------------------------------------- *)
\* The template ids the threads ask for.
ThreadTypes == {0, CAMERA3_TEMPLATE_PREVIEW, CAMERA3_TEMPLATE_STILL_CAPTURE}

\* Thread t enters constructDefaultRequestSettings, which takes no lock: it
\* checks the type and reads mTemplates[type]; it returns at once for an
\* invalid type or a cached template, and goes on to build the template
\* otherwise.
ConstructBegin(t) ==
    /\ callers[t].pc = "idle"
    /\ \E type \in ThreadTypes :
         IF ~isValidTemplateType(type)
         THEN /\ lastOp' = [op |-> "constructDefaultRequestSettings", thread |-> t,
                            type |-> type, ret |-> NULL]
              /\ UNCHANGED callers
         ELSE IF mTemplates[type]
         THEN /\ lastOp' = [op |-> "constructDefaultRequestSettings", thread |-> t,
                            type |-> type, ret |-> type]
              /\ UNCHANGED callers
         ELSE /\ callers' = [callers EXCEPT ![t] = [pc |-> "initTemplate", type |-> type]]
              /\ lastOp' = [op |-> "initTemplate", thread |-> t, type |-> type]
    /\ UNCHANGED <<device_fd, wrapVars, cameraVars, metaVars, capture,
                   mStaticInfo, mTemplates, mStaticInfoLock, inits>>

\* Thread t finishes initTemplate and, when it succeeded, stores the block
\* in mTemplates[type].
ConstructEnd(t) ==
    /\ callers[t].pc = "initTemplate"
    /\ \E o \in InitResults :
         LET type == callers[t].type IN
         IF initTemplate(type, o) # 0
         THEN /\ lastOp' = [op |-> "constructDefaultRequestSettings", thread |-> t,
                            type |-> type, ret |-> NULL]
              /\ UNCHANGED <<mTemplates, inits>>
         ELSE /\ mTemplates' = [mTemplates EXCEPT ![type] = TRUE]
              /\ inits' = [inits EXCEPT ![type] = @ + 1]
              /\ lastOp' = [op |-> "constructDefaultRequestSettings", thread |-> t,
                            type |-> type, ret |-> type]
    /\ callers' = [callers EXCEPT ![t] = [pc |-> "idle"]]
    /\ UNCHANGED <<device_fd, wrapVars, cameraVars, metaVars, capture,
                   mStaticInfo, mStaticInfoLock>>

\* Thread t enters getInfo and takes mStaticInfoLock; with mStaticInfo set
\* it reads facing and orientation and returns, releasing the lock.
GetInfoBegin(t) ==
    /\ callers[t].pc = "idle"
    /\ mStaticInfoLock = NULL
    /\ IF mStaticInfo
       THEN /\ \E f \in InfoResults :
                 lastOp' = [op |-> "getInfo", thread |-> t, ret |-> f]
            /\ UNCHANGED <<callers, mStaticInfoLock>>
       ELSE /\ mStaticInfoLock' = t
            /\ callers' = [callers EXCEPT ![t] = [pc |-> "initStaticInfo"]]
            /\ lastOp' = [op |-> "initStaticInfo", thread |-> t]
    /\ UNCHANGED <<device_fd, wrapVars, cameraVars, metaVars, capture,
                   mStaticInfo, mTemplates, inits>>

\* Thread t finishes initStaticInfo under the lock and returns.
GetInfoEnd(t) ==
    /\ callers[t].pc = "initStaticInfo"
    /\ \E o \in InitResults, f \in InfoResults :
         IF o # 0
         THEN /\ lastOp' = [op |-> "getInfo", thread |-> t, ret |-> -ENODEV]
              /\ UNCHANGED <<mStaticInfo, inits>>
         ELSE /\ mStaticInfo' = TRUE
              /\ inits' = [inits EXCEPT ![0] = @ + 1]
              /\ lastOp' = [op |-> "getInfo", thread |-> t, ret |-> f]
    /\ mStaticInfoLock' = NULL
    /\ callers' = [callers EXCEPT ![t] = [pc |-> "idle"]]
    /\ UNCHANGED <<device_fd, wrapVars, cameraVars, metaVars, capture, mTemplates>>

(* ---------------------------------------------------------------------- *)
(* The V4L2 wrapper (V4L2Wrapper) with its gralloc helper and the driver.  *)
(* ---------------------------------------------------------------------- *)
\* No StreamFormat cached (format_ is null).
NoFormat == [set |-> FALSE]

\* StreamFormat::StreamFormat(stream): the format a stream asks for.
StreamFormat(s) ==
    [set |-> TRUE, format |-> s.format, width |-> s.width, height |-> s.height]

\* The streams handed to SetFormat.
FormatStreams ==
    {BaseDesc, [BaseDesc EXCEPT !.width = 320], [BaseDesc EXCEPT !.stream_type = "INPUT"]}

\* The graphics buffers of the framework.
Handles == 1..MaxHandles

\* What ioctl(2) may return, and what gralloc may answer.
IoctlResults == {0, -1}
GrallocResults == {0, -ENODEV}
\* VIDIOC_S_FMT fails, or returns the requested format, or another one.
SFmtResults == {"fail", "same", "coerced"}
\* VIDIOC_REQBUFS fails (-1) or grants a number of buffers.
ReqbufsResults == {-1, 0, 1}
\* The value of the caller's max_buffers variable before SetFormat; it is
\* uninitialized in Camera::setupStreams.
PriorMaxBuffers == {0, 2}

\* The wrapper, its helper and the driver as one value.
W ==
    [device_fd |-> device_fd, ext |-> extended_query_supported_,
     format_ |-> format_, max_buffers_ |-> max_buffers_,
     gralloc_ |-> gralloc_, driver |-> driver]

\* The wrapper, its helper and the driver become w.
SetW(w) ==
    /\ device_fd' = w.device_fd
    /\ extended_query_supported_' = w.ext
    /\ format_' = w.format_
    /\ max_buffers_' = w.max_buffers_
    /\ gralloc_' = w.gralloc_
    /\ driver' = w.driver

\* The driver with nothing streaming, queued or granted.
IdleDriver == [streaming |-> FALSE, queued |-> <<>>, count |-> 0]

\* V4L2Wrapper::IoctlLocked with ioctl(2) answering ret: the result and
\* the ioctls issued.
IoctlLocked(w, request, ret) ==
    IF ~w.device_fd THEN [res |-> -ENODEV, issued |-> <<>>]
    ELSE [res |-> ret, issued |-> <<request>>]

\* V4L2Gralloc::unlockAllBuffers: the helper holds no buffer afterwards.
unlockAllBuffers(w) == [w EXCEPT !.gralloc_ = {}]
\* V4L2Gralloc::lock of buffer b.
lock(w, b) == [w EXCEPT !.gralloc_ = @ \cup {b}]
\* V4L2Gralloc::unlock of buffer b.
unlock(w, b) == [w EXCEPT !.gralloc_ = @ \ {b}]

\* V4L2Wrapper::Disconnect
Disconnect(w) ==
    unlockAllBuffers([w EXCEPT !.device_fd = FALSE, !.format_ = NoFormat,
                               !.max_buffers_ = 0, !.driver = IdleDriver])

\* V4L2Wrapper::StreamOn with VIDIOC_STREAMON answering ret.
StreamOn(w, ret) ==
    IF ~w.format_.set
    THEN [res |-> -EINVAL, w |-> w, ioctls |-> <<>>, calls |-> {}]
    ELSE LET io == IoctlLocked(w, "VIDIOC_STREAMON", ret) IN
         IF io.res < 0
         THEN [res |-> -ENODEV, w |-> w, ioctls |-> io.issued, calls |-> {}]
         ELSE [res |-> 0, w |-> [w EXCEPT !.driver.streaming = TRUE],
               ioctls |-> io.issued, calls |-> {}]

\* StreamOff that returns when VIDIOC_STREAMOFF fails, before it unlocks.
StreamOff_ReturnOnFailure(w, ret, gr) ==
    IF ~w.format_.set
    THEN [res |-> -ENODEV, w |-> w, ioctls |-> <<>>, calls |-> {}]
    ELSE LET io == IoctlLocked(w, "VIDIOC_STREAMOFF", ret) IN
         IF io.res < 0
         THEN [res |-> -ENODEV, w |-> w, ioctls |-> io.issued, calls |-> {}]
         ELSE [res |-> IF gr < 0 THEN gr ELSE 0,
               w |-> unlockAllBuffers([w EXCEPT !.driver.streaming = FALSE,
                                                !.driver.queued = <<>>]),
               ioctls |-> io.issued, calls |-> {"unlockAllBuffers"}]

\* V4L2Wrapper::StreamOff with VIDIOC_STREAMOFF answering ret and
\* unlockAllBuffers answering gr.
StreamOff(w, ret, gr) ==
    IF ~w.format_.set
    THEN [res |-> -ENODEV, w |-> w, ioctls |-> <<>>, calls |-> {}]
    ELSE LET io == IoctlLocked(w, "VIDIOC_STREAMOFF", ret)
             w1 == IF io.res < 0 THEN w
                   ELSE [w EXCEPT !.driver.streaming = FALSE, !.driver.queued = <<>>]
             w2 == unlockAllBuffers(w1)
         IN [res |-> IF io.res < 0 THEN -ENODEV ELSE IF gr < 0 THEN gr ELSE 0,
             w |-> w2, ioctls |-> io.issued, calls |-> {"unlockAllBuffers"}]

\* V4L2Wrapper::QueryControl: r1 and r2 are the answers of the extended and
\* the basic query; enotty tells whether errno is ENOTTY when it is read.
QueryControl(w, r1, enotty, r2) ==
    LET io1 == IF w.ext THEN IoctlLocked(w, "VIDIOC_QUERY_EXT_CTRL", r1)
               ELSE [res |-> 0, issued |-> <<>>]
        io2 == IoctlLocked(w, "VIDIOC_QUERYCTRL", r2)
    IN IF w.ext /\ ~enotty
       THEN [res |-> IF io1.res # 0 THEN -ENODEV ELSE 0, w |-> w,
             ioctls |-> io1.issued, calls |-> {}]
       ELSE [res |-> IF io2.res # 0 THEN -ENODEV ELSE 0, w |-> w,
             ioctls |-> io1.issued \o io2.issued, calls |-> {}]

\* V4L2Wrapper::GetControl with VIDIOC_G_CTRL answering ret.
GetControl(w, ret) ==
    LET io == IoctlLocked(w, "VIDIOC_G_CTRL", ret) IN
    [res |-> IF io.res < 0 THEN -ENODEV ELSE 0, w |-> w,
     ioctls |-> io.issued, calls |-> {}]

\* V4L2Wrapper::SetControl with VIDIOC_S_CTRL answering ret.
SetControl(w, ret) ==
    LET io == IoctlLocked(w, "VIDIOC_S_CTRL", ret) IN
    [res |-> IF io.res < 0 THEN -ENODEV ELSE 0, w |-> w,
     ioctls |-> io.issued, calls |-> {}]

\* V4L2Wrapper::SetupBuffers with VIDIOC_REQBUFS answering req and
\* unlockAllBuffers answering gr.
SetupBuffers(w, req, gr) ==
    IF ~w.format_.set
    THEN [res |-> -ENODEV, w |-> w, ioctls |-> <<>>, calls |-> {"SetupBuffers"}]
    ELSE LET io == IoctlLocked(w, "VIDIOC_REQBUFS", IF req < 0 THEN -1 ELSE 0)
             w1 == IF io.res < 0 THEN w
                   ELSE [w EXCEPT !.driver.queued = <<>>, !.driver.count = req]
             w2 == unlockAllBuffers(w1)
             calls == {"SetupBuffers", "unlockAllBuffers"}
         IN IF io.res < 0
            THEN [res |-> -ENODEV, w |-> w2, ioctls |-> io.issued, calls |-> calls]
            ELSE IF gr < 0
            THEN [res |-> gr, w |-> w2, ioctls |-> io.issued, calls |-> calls]
            ELSE [res |-> IF req < 1 THEN -ENODEV ELSE 0,
                  w |-> [w2 EXCEPT !.max_buffers_ = req],
                  ioctls |-> io.issued, calls |-> calls]

\* The skip test that never finds the format cached.
formatMatches_Never(w, desired) == FALSE

\* V4L2Wrapper::SetFormat: format_ && desired_format == *format_
formatMatches(w, desired) == w.format_.set /\ desired = w.format_

\* SetFormat that does not compare the driver's format with the desired one.
SetFormat_NoVerify(w, s, prior, sfmt, req, gr) ==
    IF isInputType(s)
    THEN [res |-> -EINVAL, w |-> w, ioctls |-> <<>>, calls |-> {}, out |-> prior]
    ELSE IF formatMatches(w, StreamFormat(s))
    THEN [res |-> 0, w |-> w, ioctls |-> <<>>, calls |-> {}, out |-> prior]
    ELSE LET io == IoctlLocked(w, "VIDIOC_S_FMT", IF sfmt = "fail" THEN -1 ELSE 0) IN
         IF io.res < 0
         THEN [res |-> -ENODEV, w |-> w, ioctls |-> io.issued, calls |-> {},
               out |-> prior]
         ELSE LET sb == SetupBuffers([w EXCEPT !.driver.count = 0,
                                               !.format_ = StreamFormat(s)], req, gr)
              IN [res |-> sb.res, w |-> sb.w, ioctls |-> io.issued \o sb.ioctls,
                  calls |-> sb.calls,
                  out |-> IF sb.res # 0 THEN prior ELSE sb.w.max_buffers_]

\* V4L2Wrapper::SetFormat for stream s: VIDIOC_S_FMT answers sfmt, and
\* SetupBuffers sees req and gr.  prior is the value of *result_max_buffers
\* before the call and out its value after it.  A successful VIDIOC_S_FMT
\* leaves the driver without buffers for the format it set.
SetFormat(w, s, prior, sfmt, req, gr) ==
    IF isInputType(s)
    THEN [res |-> -EINVAL, w |-> w, ioctls |-> <<>>, calls |-> {}, out |-> prior]
    ELSE IF formatMatches(w, StreamFormat(s))
    THEN [res |-> 0, w |-> w, ioctls |-> <<>>, calls |-> {}, out |-> prior]
    ELSE LET io == IoctlLocked(w, "VIDIOC_S_FMT", IF sfmt = "fail" THEN -1 ELSE 0)
             w1 == [w EXCEPT !.driver.count = 0]
         IN IF io.res < 0
            THEN [res |-> -ENODEV, w |-> w, ioctls |-> io.issued, calls |-> {},
                  out |-> prior]
            ELSE IF sfmt = "coerced"
            THEN [res |-> -EINVAL, w |-> w1, ioctls |-> io.issued, calls |-> {},
                  out |-> prior]
            ELSE LET sb == SetupBuffers([w1 EXCEPT !.format_ = StreamFormat(s)],
                                        req, gr)
                 IN [res |-> sb.res, w |-> sb.w, ioctls |-> io.issued \o sb.ioctls,
                     calls |-> sb.calls,
                     out |-> IF sb.res # 0 THEN prior ELSE sb.w.max_buffers_]

\* EnqueueBuffer that keeps the gralloc lock when VIDIOC_QBUF fails.
EnqueueBuffer_KeepLock(w, b, rq, lk, rb) ==
    IF ~w.format_.set
    THEN [res |-> -ENODEV, w |-> w, ioctls |-> <<>>, calls |-> {}]
    ELSE LET io1 == IoctlLocked(w, "VIDIOC_QUERYBUF", rq) IN
         IF io1.res < 0
         THEN [res |-> -ENODEV, w |-> w, ioctls |-> io1.issued, calls |-> {}]
         ELSE IF lk # 0
         THEN [res |-> lk, w |-> w, ioctls |-> io1.issued, calls |-> {"lock"}]
         ELSE LET w1 == lock(w, b)
                  io2 == IoctlLocked(w1, "VIDIOC_QBUF", rb)
              IN IF io2.res < 0
                 THEN [res |-> -ENODEV, w |-> w1,
                       ioctls |-> io1.issued \o io2.issued, calls |-> {"lock"}]
                 ELSE [res |-> 0, w |-> [w1 EXCEPT !.driver.queued = Append(@, b)],
                       ioctls |-> io1.issued \o io2.issued, calls |-> {"lock"}]

\* V4L2Wrapper::EnqueueBuffer of buffer b: VIDIOC_QUERYBUF answers rq,
\* gralloc's lock answers lk and VIDIOC_QBUF answers rb.
EnqueueBuffer(w, b, rq, lk, rb) ==
    IF ~w.format_.set
    THEN [res |-> -ENODEV, w |-> w, ioctls |-> <<>>, calls |-> {}]
    ELSE LET io1 == IoctlLocked(w, "VIDIOC_QUERYBUF", rq) IN
         IF io1.res < 0
         THEN [res |-> -ENODEV, w |-> w, ioctls |-> io1.issued, calls |-> {}]
         ELSE IF lk # 0
         THEN [res |-> lk, w |-> w, ioctls |-> io1.issued, calls |-> {"lock"}]
         ELSE LET w1 == lock(w, b)
                  io2 == IoctlLocked(w1, "VIDIOC_QBUF", rb)
              IN IF io2.res < 0
                 THEN [res |-> -ENODEV, w |-> unlock(w1, b),
                       ioctls |-> io1.issued \o io2.issued,
                       calls |-> {"lock", "unlock"}]
                 ELSE [res |-> 0, w |-> [w1 EXCEPT !.driver.queued = Append(@, b)],
                       ioctls |-> io1.issued \o io2.issued, calls |-> {"lock"}]

\* V4L2Wrapper::DequeueBuffer: VIDIOC_DQBUF answers rd, and hands out the
\* oldest queued buffer only while the stream is on; gralloc's unlock
\* answers ur.
DequeueBuffer(w, rd, ur) ==
    IF ~w.format_.set
    THEN [res |-> -ENODEV, w |-> w, ioctls |-> <<>>, calls |-> {}]
    ELSE LET ready == w.driver.streaming /\ w.driver.queued # <<>>
             io == IoctlLocked(w, "VIDIOC_DQBUF", IF ready THEN rd ELSE -1)
         IN IF io.res < 0
            THEN [res |-> -ENODEV, w |-> w, ioctls |-> io.issued, calls |-> {}]
            ELSE [res |-> ur,
                  w |-> unlock([w EXCEPT !.driver.queued = Tail(@)],
                               Head(w.driver.queued)),
                  ioctls |-> io.issued, calls |-> {"unlock"}]

(* ---------------------------------------------------------------------- *)
(* Calls on the wrapper, one at a time.                                    *)
(* ---------------------------------------------------------------------- *)
\* What lastOp tells of a wrapper call that gave r: the result, the ioctls
\* issued, the helper calls made, and the wrapper before the call.
WrapperCall(name, r) ==
    [op |-> name, ret |-> r.res, ioctls |-> r.ioctls, calls |-> r.calls,
     connected |-> device_fd, had_format |-> format_.set, locked |-> gralloc_]

\* V4L2Wrapper::Connect; the probe with VIDIOC_QUERY_EXT_CTRL sets
\* extended_query_supported_.
WrapperConnect ==
    \E o \in OpenResults, probe \in {"yes", "no"} :
        LET c == Connect(device_fd, o) IN
        /\ device_fd' = c.device_fd
        /\ extended_query_supported_' =
               IF c.res = 0 THEN probe ELSE extended_query_supported_
        /\ lastOp' = [op |-> "Connect", ret |-> c.res, connected |-> device_fd]
        /\ UNCHANGED <<format_, max_buffers_, gralloc_, driver,
                       cameraVars, metaVars, capture, infoVars>>

\* V4L2Wrapper::Disconnect
WrapperDisconnect ==
    /\ SetW(Disconnect(W))
    /\ lastOp' = [op |-> "Disconnect", ret |-> 0, calls |-> {"unlockAllBuffers"},
                  connected |-> device_fd, had_format |-> format_.set,
                  locked |-> gralloc_]
    /\ UNCHANGED <<cameraVars, metaVars, capture, infoVars>>

WrapperStreamOn ==
    \E ret \in IoctlResults :
        LET r == StreamOn(W, ret) IN
        /\ SetW(r.w)
        /\ lastOp' = WrapperCall("StreamOn", r)
        /\ UNCHANGED <<cameraVars, metaVars, capture, infoVars>>

WrapperStreamOff ==
    \E ret \in IoctlResults, gr \in GrallocResults :
        LET r == StreamOff(W, ret, gr) IN
        /\ SetW(r.w)
        /\ lastOp' = WrapperCall("StreamOff", r)
        /\ UNCHANGED <<cameraVars, metaVars, capture, infoVars>>

\* extended_query_supported_ has no value before the first Connect: a
\* QueryControl made then reads either value.
WrapperQueryControl ==
    \E r1 \in IoctlResults, r2 \in IoctlResults, enotty \in BOOLEAN,
       e \in (IF extended_query_supported_ = "unset" THEN BOOLEAN
              ELSE {extended_query_supported_ = "yes"}) :
        LET r == QueryControl([W EXCEPT !.ext = e], r1, enotty, r2) IN
        /\ lastOp' = WrapperCall("QueryControl", r)
        /\ UNCHANGED <<device_fd, wrapVars, cameraVars, metaVars, capture, infoVars>>

WrapperGetControl ==
    \E ret \in IoctlResults :
        LET r == GetControl(W, ret) IN
        /\ lastOp' = WrapperCall("GetControl", r)
        /\ UNCHANGED <<device_fd, wrapVars, cameraVars, metaVars, capture, infoVars>>

WrapperSetControl ==
    \E ret \in IoctlResults :
        LET r == SetControl(W, ret) IN
        /\ lastOp' = WrapperCall("SetControl", r)
        /\ UNCHANGED <<device_fd, wrapVars, cameraVars, metaVars, capture, infoVars>>

\* SetFormat for one of the streams, as Camera::setupStreams calls it
\* through setupStream.
WrapperSetFormatOf(streams) ==
    \E s \in streams, prior \in PriorMaxBuffers, sfmt \in SFmtResults,
       req \in ReqbufsResults, gr \in GrallocResults :
        LET r == SetFormat(W, s, prior, sfmt, req, gr) IN
        /\ SetW(r.w)
        /\ lastOp' = [op |-> "SetFormat", ret |-> r.res, ioctls |-> r.ioctls,
                      calls |-> r.calls, connected |-> device_fd,
                      had_format |-> format_.set, locked |-> gralloc_,
                      stream |-> s, out |-> r.out, sfmt |-> sfmt]
        /\ UNCHANGED <<cameraVars, metaVars, capture, infoVars>>

WrapperSetFormat == WrapperSetFormatOf(FormatStreams)

\* The framework lends a buffer to one request at a time: the buffer that
\* is enqueued is not held by the helper.
WrapperEnqueueBuffer ==
    \E b \in Handles \ gralloc_, rq \in IoctlResults, lk \in GrallocResults,
       rb \in IoctlResults :
        /\ Len(driver.queued) < MaxQueued
        /\ LET r == EnqueueBuffer(W, b, rq, lk, rb) IN
           /\ SetW(r.w)
           /\ lastOp' = WrapperCall("EnqueueBuffer", r)
        /\ UNCHANGED <<cameraVars, metaVars, capture, infoVars>>

WrapperDequeueBuffer ==
    \E rd \in IoctlResults, ur \in GrallocResults :
        LET r == DequeueBuffer(W, rd, ur) IN
        /\ SetW(r.w)
        /\ lastOp' = WrapperCall("DequeueBuffer", r)
        /\ UNCHANGED <<cameraVars, metaVars, capture, infoVars>>

(* ---------------------------------------------------------------------- *)
(* The synchronous capture: V4L2Camera::enqueueBuffer, one wrapper call    *)
(* per step, run by the threads that submit requests.                      *)
(* ---------------------------------------------------------------------- *)
\* Thread t leaves enqueueBuffer with result res after the wrapper calls of
\* trace; otherwise it moves on to the wrapper call next.
CaptureStep(t, r, trace, next) ==
    /\ SetW(r.w)
    /\ IF r.res # 0 \/ next = "idle"
       THEN /\ capture' = [capture EXCEPT ![t] = [pc |-> "idle"]]
            /\ lastOp' = [op |-> "enqueueBuffer", thread |-> t, ret |-> r.res,
                          returned |-> TRUE, trace |-> trace]
       ELSE /\ capture' = [capture EXCEPT ![t] = [pc |-> next, trace |-> trace]]
            /\ lastOp' = [op |-> "enqueueBuffer", thread |-> t, ret |-> r.res,
                          returned |-> FALSE, trace |-> trace]
    /\ UNCHANGED <<cameraVars, metaVars, infoVars>>

\* mV4L2Device->EnqueueBuffer(camera_buffer)
CaptureEnqueueBuffer(t) ==
    /\ capture[t].pc = "idle"
    /\ Len(driver.queued) < MaxQueued
    /\ \E b \in Handles \ gralloc_, rq \in IoctlResults, lk \in GrallocResults,
          rb \in IoctlResults :
         CaptureStep(t, EnqueueBuffer(W, b, rq, lk, rb), <<"EnqueueBuffer">>, "StreamOn")

\* mV4L2Device->StreamOn()
CaptureStreamOn(t) ==
    /\ capture[t].pc = "StreamOn"
    /\ \E ret \in IoctlResults :
         CaptureStep(t, StreamOn(W, ret), Append(capture[t].trace, "StreamOn"),
                     "DequeueBuffer")

\* mV4L2Device->DequeueBuffer(&result_buffer)
CaptureDequeueBuffer(t) ==
    /\ capture[t].pc = "DequeueBuffer"
    /\ \E rd \in IoctlResults, ur \in GrallocResults :
         CaptureStep(t, DequeueBuffer(W, rd, ur),
                     Append(capture[t].trace, "DequeueBuffer"), "StreamOff")

\* mV4L2Device->StreamOff()
CaptureStreamOff(t) ==
    /\ capture[t].pc = "StreamOff"
    /\ \E ret \in IoctlResults, gr \in GrallocResults :
         CaptureStep(t, StreamOff(W, ret, gr),
                     Append(capture[t].trace, "StreamOff"), "idle")

\* The device is connected and its format set before requests arrive.
CaptureSetFormat ==
    /\ \A t \in Threads : capture[t].pc = "idle"
    /\ WrapperSetFormatOf({BaseDesc})

(* ---------------------------------------------------------------------- *)
(* Control queries: errno of the calling thread, and the conversion of a   *)
(* v4l2_queryctrl into a v4l2_query_ext_ctrl.                              *)
(* ---------------------------------------------------------------------- *)
\* Integers of the structures are kept at their width as 16-bit limbs, the
\* most significant first: a 32-bit member has 2 limbs, a 64-bit one 4.
LimbBits == 16
LimbMod == 2 ^ LimbBits
LimbMax == LimbMod - 1
LimbSign == 2 ^ (LimbBits - 1)

\* static_cast<uint32_t> of a 32-bit member, stored in a 64-bit one.
ZeroExtend(v) == <<0, 0>> \o v
\* A signed 32-bit member stored in a signed 64-bit one.
SignExtend(v) == IF v[1] >= LimbSign THEN <<LimbMax, LimbMax>> \o v ELSE <<0, 0>> \o v
\* v + 1 at the width of v.
Inc(v) ==
    [i \in 1..Len(v) |->
        IF \A j \in (i + 1)..Len(v) : v[j] = LimbMax THEN (v[i] + 1) % LimbMod ELSE v[i]]
\* A 64-bit value stored in a 32-bit member.
Low32(v) == <<v[3], v[4]>>
\* The sign of a two's complement value.
IsNegative(v) == v[1] >= LimbSign

\* sizeof(int32_t) and sizeof(int64_t) as 32-bit members.
SizeofInt32 == <<0, 4>>
SizeofInt64 == <<0, 8>>

\* The control types a driver reports.
ControlTypes == {"INTEGER", "BOOLEAN", "MENU", "INTEGER64", "STRING", "BITMASK"}
\* 32-bit values a driver reports as maximum: 1, 0x7FFFFFFF, 0xFFFFFFFE,
\* 0xFFFFFFFF; and as default_value: 1, 0x80000000.
Maxima == {<<0, 1>>, <<LimbSign - 1, LimbMax>>, <<LimbMax, LimbMax - 1>>, <<LimbMax, LimbMax>>}
Defaults == {<<0, 1>>, <<LimbSign, 0>>}
\* The v4l2_queryctrl a driver returns from VIDIOC_QUERYCTRL.
Queryctrls == [type : ControlTypes, maximum : Maxima, default_value : Defaults]
\* The v4l2_queryctrl of a call that does not read it.
UnusedQueryctrl == [type |-> "INTEGER", maximum |-> <<0, 1>>, default_value |-> <<0, 1>>]

\* No v4l2_query_ext_ctrl was produced by the fallback.
NoExtCtrl == [type |-> "none"]

\* The conversion with maximum and default_value sign-extended for every type.
QueryctrlToExt_SignExtend(query) ==
    LET maximum == SignExtend(query.maximum) IN
    [type |-> query.type,
     maximum |-> maximum,
     default_value |-> SignExtend(query.default_value),
     elems |-> 1,
     elem_size |-> CASE query.type = "INTEGER64" -> SizeofInt64
                     [] query.type = "STRING" -> Low32(Inc(maximum))
                     [] OTHER -> SizeofInt32]

\* V4L2Wrapper::QueryControl, "Convert the basic result to the extended
\* result".
QueryctrlToExt(query) ==
    LET maximum == IF query.type = "BITMASK" THEN ZeroExtend(query.maximum)
                   ELSE SignExtend(query.maximum)
    IN
    [type |-> query.type,
     maximum |-> maximum,
     default_value |-> IF query.type = "BITMASK" THEN ZeroExtend(query.default_value)
                       ELSE SignExtend(query.default_value),
     elems |-> 1,
     elem_size |-> CASE query.type = "INTEGER64" -> SizeofInt64
                     [] query.type = "STRING" -> Low32(Inc(maximum))
                     [] OTHER -> SizeofInt32]

\* What an ioctl leaves in errno: 0 stands for success, which leaves errno
\* alone; a failing ioctl returns -1 and stores its error.
IoctlErrnos == {0, ENOTTY, EIO}

\* The return value of an ioctl that answers a.
IoctlReturn(a) == IF a = 0 THEN 0 ELSE -1

\* errno after IoctlLocked on wrapper w with the ioctl answering a, when it
\* was e before: a wrapper that is not connected makes no system call.
ErrnoAfter(w, e, a) == IF w.device_fd /\ a # 0 THEN a ELSE e

\* V4L2Wrapper::Connect, with errno: a failing open and a failing probe
\* store their error.
ControlConnect ==
    \E o \in OpenResults, a \in IoctlErrnos :
        LET c == Connect(device_fd, o) IN
        /\ device_fd' = c.device_fd
        /\ extended_query_supported_' =
               IF c.res # 0 THEN extended_query_supported_
               ELSE IF a = 0 THEN "yes" ELSE "no"
        /\ errno' = IF device_fd THEN errno
                    ELSE IF o < 0 THEN -o
                    ELSE IF a # 0 THEN a ELSE errno
        /\ lastOp' = [op |-> "Connect", ret |-> c.res, connected |-> device_fd]
        /\ UNCHANGED <<format_, max_buffers_, gralloc_, driver, cameraVars,
                       capture, infoVars, device_lock_, wrapperCalls, registryVars>>

\* V4L2Wrapper::GetControl, with errno.
ControlGetControl ==
    \E a \in IoctlErrnos :
        LET r == GetControl(W, IoctlReturn(a)) IN
        /\ errno' = ErrnoAfter(W, errno, a)
        /\ lastOp' = WrapperCall("GetControl", r)
        /\ UNCHANGED <<device_fd, wrapVars, cameraVars, capture, infoVars,
                       device_lock_, wrapperCalls, registryVars>>

\* V4L2Wrapper::SetControl, with errno.
ControlSetControl ==
    \E a \in IoctlErrnos :
        LET r == SetControl(W, IoctlReturn(a)) IN
        /\ errno' = ErrnoAfter(W, errno, a)
        /\ lastOp' = WrapperCall("SetControl", r)
        /\ UNCHANGED <<device_fd, wrapVars, cameraVars, capture, infoVars,
                       device_lock_, wrapperCalls, registryVars>>

\* V4L2Wrapper::QueryControl, with errno: a1 and a2 are the driver's answers
\* to VIDIOC_QUERY_EXT_CTRL and VIDIOC_QUERYCTRL, query what VIDIOC_QUERYCTRL
\* fills in. errno is read after the extended query whatever it returned.
ControlQueryControl ==
    \E a1 \in IoctlErrnos, a2 \in IoctlErrnos,
       e \in (IF extended_query_supported_ = "unset" THEN BOOLEAN
              ELSE {extended_query_supported_ = "yes"}) :
        LET w == [W EXCEPT !.ext = e]
            e1 == IF e THEN ErrnoAfter(w, errno, a1) ELSE errno
            r == QueryControl(w, IoctlReturn(a1), e1 = ENOTTY, IoctlReturn(a2))
            basic == "VIDIOC_QUERYCTRL" \in Range(r.ioctls)
            converts == basic /\ r.res = 0
        IN
        /\ errno' = IF basic THEN ErrnoAfter(w, e1, a2) ELSE e1
        /\ \E query \in (IF converts THEN Queryctrls ELSE {UnusedQueryctrl}) :
             lastOp' = [op |-> "QueryControl", ret |-> r.res, ioctls |-> r.ioctls,
                        connected |-> device_fd, ext |-> e, a1 |-> a1,
                        query |-> query,
                        result |-> IF converts THEN QueryctrlToExt(query)
                                   ELSE NoExtCtrl]
        /\ UNCHANGED <<device_fd, wrapVars, cameraVars, capture, infoVars,
                       device_lock_, wrapperCalls, registryVars>>

(* ---------------------------------------------------------------------- *)
(* Partial metadata components: a control with its delegate and its        *)
(* options (Control<T>, MenuControlOptions<T>).                            *)
(* ---------------------------------------------------------------------- *)
\* A metadata block maps the tags it holds to their values; an entry holds
\* at least one value.
EmptyMetadata == [tag \in {} |-> <<>>]

\* MenuControlOptions::IsSupported: the value is one of the options.
IsSupported(options, value) == \E i \in 1..Len(options) : options[i] = value

\* DefaultValueForTemplate that reports success for an empty menu as well.
DefaultValueForTemplate_NoEmptyCheck(options, template_type, pick) ==
    [res |-> 0, value |-> IF options = <<>> THEN 0 ELSE options[pick]]

\* MenuControlOptions::DefaultValueForTemplate: -ENODEV for an empty menu,
\* otherwise one of the options; which one is left to the implementation
\* (pick).
DefaultValueForTemplate(options, template_type, pick) ==
    IF options = <<>> THEN [res |-> -ENODEV, value |-> 0]
    ELSE [res |-> 0, value |-> options[pick]]

\* SupportsRequestValues that does not count the values of an optionless
\* control.
SupportsRequestValues_NoCountCheck(control, md) ==
    IF control.control_tag \notin DOMAIN md THEN TRUE
    ELSE IF ~control.has_options THEN TRUE
    ELSE IF Len(md[control.control_tag]) # 1 THEN FALSE
    ELSE IsSupported(control.options, md[control.control_tag][1])

\* Control::SupportsRequestValues
SupportsRequestValues(control, md) ==
    IF control.control_tag \notin DOMAIN md THEN TRUE
    ELSE IF Len(md[control.control_tag]) # 1 THEN FALSE
    ELSE IF ~control.has_options THEN TRUE
    ELSE IsSupported(control.options, md[control.control_tag][1])

\* One call on the options or on the delegate of a control.
Call(fn, arg) == [fn |-> fn, arg |-> arg]

\* The calls SupportsRequestValues makes on the options of the control.
ValidationCalls(control, md) ==
    IF /\ control.control_tag \in DOMAIN md
       /\ Len(md[control.control_tag]) = 1
       /\ control.has_options
    THEN <<Call("IsSupported", md[control.control_tag][1])>>
    ELSE <<>>

\* SetRequestValues that writes before it validates.
SetRequestValues_WriteFirst(control, md, set_res) ==
    IF control.control_tag \notin DOMAIN md THEN [res |-> 0, calls |-> <<>>]
    ELSE LET value == md[control.control_tag][1]
             write == <<Call("SetValue", value)>> \o ValidationCalls(control, md)
         IN
         IF ~SupportsRequestValues(control, md)
         THEN [res |-> -EINVAL, calls |-> write]
         ELSE [res |-> set_res, calls |-> write]

\* Control::SetRequestValues with the delegate's SetValue answering
\* set_res: the result and the calls made on options and delegate.
SetRequestValues(control, md, set_res) ==
    IF control.control_tag \notin DOMAIN md THEN [res |-> 0, calls |-> <<>>]
    ELSE IF ~SupportsRequestValues(control, md)
    THEN [res |-> -EINVAL, calls |-> ValidationCalls(control, md)]
    ELSE [res |-> set_res,
          calls |-> ValidationCalls(control, md)
                    \o <<Call("SetValue", md[control.control_tag][1])>>]

\* The menus, controls and requests of the component's own tests.
OptionLists == {<<>>, <<1>>, <<1, 10>>, <<10, 1, 19>>}
RequestedValues == {1, 10, 19, 99}
ValueLists == {<<1>>, <<10>>, <<99>>, <<1, 10>>, <<1, 10, 19>>}
SetResults == {0, -ENODEV}

TestControl(has_options, options) ==
    [control_tag |-> "ANDROID_COLOR_CORRECTION_ABERRATION_MODE",
     options_tag |-> "ANDROID_COLOR_CORRECTION_AVAILABLE_ABERRATION_MODES",
     has_options |-> has_options, options |-> options]

TestControls ==
    {TestControl(FALSE, <<>>)} \cup {TestControl(TRUE, o) : o \in OptionLists}

TestRequests ==
    {EmptyMetadata}
    \cup {[tag \in {"ANDROID_COLOR_CORRECTION_ABERRATION_MODE"} |-> vs] : vs \in ValueLists}
    \cup {[tag \in {"ANDROID_EDGE_MODE"} |-> <<1>>]}

\* MenuControlOptions::IsSupported is called.
MenuIsSupported ==
    /\ \E options \in OptionLists, value \in RequestedValues :
         lastOp' = [op |-> "IsSupported", options |-> options, value |-> value,
                    ret |-> IsSupported(options, value)]
    /\ UNCHANGED <<device_fd, wrapVars, cameraVars, capture, infoVars, metaVars>>

\* MenuControlOptions::DefaultValueForTemplate is called.
MenuDefaultValueForTemplate ==
    /\ \E options \in OptionLists, template_type \in TemplateTypes :
         \E pick \in (IF options = <<>> THEN {0} ELSE 1..Len(options)) :
            LET r == DefaultValueForTemplate(options, template_type, pick) IN
            lastOp' = [op |-> "DefaultValueForTemplate", options |-> options,
                       template_type |-> template_type, ret |-> r.res,
                       value |-> r.value]
    /\ UNCHANGED <<device_fd, wrapVars, cameraVars, capture, infoVars, metaVars>>

\* Control::SupportsRequestValues is called.
ControlSupportsRequestValues ==
    /\ \E control \in TestControls, md \in TestRequests :
         lastOp' = [op |-> "SupportsRequestValues", control |-> control, md |-> md,
                    ret |-> SupportsRequestValues(control, md)]
    /\ UNCHANGED <<device_fd, wrapVars, cameraVars, capture, infoVars, metaVars>>

\* Control::SetRequestValues is called.
ControlSetRequestValues ==
    /\ \E control \in TestControls, md \in TestRequests, set_res \in SetResults :
         LET r == SetRequestValues(control, md, set_res) IN
         lastOp' = [op |-> "SetRequestValues", control |-> control, md |-> md,
                    set_res |-> set_res, ret |-> r.res, calls |-> r.calls]
    /\ UNCHANGED <<device_fd, wrapVars, cameraVars, capture, infoVars, metaVars>>

(* ---------------------------------------------------------------------- *)
(* The metadata registry (Metadata) and the components V4L2Metadata        *)
(* registers.  Tags, control ids and enum values are kept by name.         *)
(* ---------------------------------------------------------------------- *)
\* The v4l2_to_metadata maps of the enum controls, as the pairs
\* <<V4L2 value, metadata value>> in the order of the initializer.
AeModes ==
    << <<"V4L2_EXPOSURE_AUTO", "ANDROID_CONTROL_AE_MODE_ON">>,
       <<"V4L2_EXPOSURE_MANUAL", "ANDROID_CONTROL_AE_MODE_OFF">> >>

AntibandingModes ==
    << <<"V4L2_CID_POWER_LINE_FREQUENCY_DISABLED", "ANDROID_CONTROL_AE_ANTIBANDING_MODE_OFF">>,
       <<"V4L2_CID_POWER_LINE_FREQUENCY_50HZ", "ANDROID_CONTROL_AE_ANTIBANDING_MODE_50HZ">>,
       <<"V4L2_CID_POWER_LINE_FREQUENCY_60HZ", "ANDROID_CONTROL_AE_ANTIBANDING_MODE_60HZ">>,
       <<"V4L2_CID_POWER_LINE_FREQUENCY_AUTO", "ANDROID_CONTROL_AE_ANTIBANDING_MODE_AUTO">> >>

PresetAwbModes ==
    << <<"V4L2_WHITE_BALANCE_MANUAL", "ANDROID_CONTROL_AWB_MODE_OFF">>,
       <<"V4L2_WHITE_BALANCE_AUTO", "ANDROID_CONTROL_AWB_MODE_AUTO">>,
       <<"V4L2_WHITE_BALANCE_INCANDESCENT", "ANDROID_CONTROL_AWB_MODE_INCANDESCENT">>,
       <<"V4L2_WHITE_BALANCE_FLUORESCENT", "ANDROID_CONTROL_AWB_MODE_FLUORESCENT">>,
       <<"V4L2_WHITE_BALANCE_DAYLIGHT", "ANDROID_CONTROL_AWB_MODE_DAYLIGHT">>,
       <<"V4L2_WHITE_BALANCE_CLOUDY", "ANDROID_CONTROL_AWB_MODE_CLOUDY_DAYLIGHT">>,
       <<"V4L2_WHITE_BALANCE_SHADE", "ANDROID_CONTROL_AWB_MODE_SHADE">> >>

SimpleAwbModes ==
    << <<"0", "ANDROID_CONTROL_AWB_MODE_OFF">>,
       <<"1", "ANDROID_CONTROL_AWB_MODE_AUTO">> >>

SceneModes ==
    << <<"V4L2_SCENE_MODE_NONE", "ANDROID_CONTROL_SCENE_MODE_DISABLED">>,
       <<"V4L2_SCENE_MODE_BEACH_SNOW", "ANDROID_CONTROL_SCENE_MODE_BEACH">>,
       <<"V4L2_SCENE_MODE_CANDLE_LIGHT", "ANDROID_CONTROL_SCENE_MODE_CANDLELIGHT">>,
       <<"V4L2_SCENE_MODE_FIREWORKS", "ANDROID_CONTROL_SCENE_MODE_FIREWORKS">>,
       <<"V4L2_SCENE_MODE_LANDSCAPE", "ANDROID_CONTROL_SCENE_MODE_LANDSCAPE">>,
       <<"V4L2_SCENE_MODE_NIGHT", "ANDROID_CONTROL_SCENE_MODE_NIGHT">>,
       <<"V4L2_SCENE_MODE_PARTY_INDOOR", "ANDROID_CONTROL_SCENE_MODE_PARTY">>,
       <<"V4L2_SCENE_MODE_SPORTS", "ANDROID_CONTROL_SCENE_MODE_SPORTS">>,
       <<"V4L2_SCENE_MODE_SUNSET", "ANDROID_CONTROL_SCENE_MODE_SUNSET">> >>

EffectModes ==
    << <<"V4L2_COLORFX_NONE", "ANDROID_CONTROL_EFFECT_MODE_OFF">>,
       <<"V4L2_COLORFX_BW", "ANDROID_CONTROL_EFFECT_MODE_MONO">>,
       <<"V4L2_COLORFX_NEGATIVE", "ANDROID_CONTROL_EFFECT_MODE_NEGATIVE">>,
       <<"V4L2_COLORFX_SOLARIZATION", "ANDROID_CONTROL_EFFECT_MODE_SOLARIZE">>,
       <<"V4L2_COLORFX_SEPIA", "ANDROID_CONTROL_EFFECT_MODE_SEPIA">>,
       <<"V4L2_COLORFX_AQUA", "ANDROID_CONTROL_EFFECT_MODE_AQUA">> >>

StabilizationModes ==
    << <<"0", "ANDROID_CONTROL_VIDEO_STABILIZATION_MODE_OFF">>,
       <<"1", "ANDROID_CONTROL_VIDEO_STABILIZATION_MODE_ON">> >>

\* The V4L2 controls the constructor asks the driver about, each with the
\* map it is given.
EnumMaps ==
    [V4L2_CID_EXPOSURE_AUTO |-> AeModes,
     V4L2_CID_POWER_LINE_FREQUENCY |-> AntibandingModes,
     V4L2_CID_AUTO_N_PRESET_WHITE_BALANCE |-> PresetAwbModes,
     V4L2_CID_AUTO_WHITE_BALANCE |-> SimpleAwbModes,
     V4L2_CID_SCENE_MODE |-> SceneModes,
     V4L2_CID_COLORFX |-> EffectModes,
     V4L2_CID_IMAGE_STABILIZATION |-> StabilizationModes]

V4L2Controls == DOMAIN EnumMaps

\* The value a driver holds for a control before anything was set.
DriverDefault(cid) == EnumMaps[cid][1][1]

\* The metadata values of a map whose V4L2 values the driver offers, in the
\* order of the map.
MappedOptions(v4l2_to_metadata, menu) ==
    LET offered == SelectSeq(v4l2_to_metadata, LAMBDA pair : pair[1] \in menu)
    IN [i \in 1..Len(offered) |-> offered[i][2]]

\* The two directions of an enum control's map.
ToMetadata(v4l2_to_metadata, v4l2_value) ==
    LET i == CHOOSE i \in 1..Len(v4l2_to_metadata) : v4l2_to_metadata[i][1] = v4l2_value
    IN v4l2_to_metadata[i][2]

ToV4L2(v4l2_to_metadata, metadata_value) ==
    LET i == CHOOSE i \in 1..Len(v4l2_to_metadata) : v4l2_to_metadata[i][2] = metadata_value
    IN v4l2_to_metadata[i][1]

\* No component: what NewV4L2EnumControl returns when it fails.
NullComponent ==
    [kind |-> "null", control_tag |-> "", options_tag |-> "", has_options |-> FALSE,
     options |-> <<>>, default_value |-> "", v4l2_control |-> "",
     v4l2_to_metadata |-> <<>>]

\* IgnoredControl<T>(control_tag, options_tag, options, default_value)
IgnoredControl(control_tag, options_tag, options, default_value) ==
    [kind |-> "ignored", control_tag |-> control_tag, options_tag |-> options_tag,
     has_options |-> TRUE, options |-> options, default_value |-> default_value,
     v4l2_control |-> "", v4l2_to_metadata |-> <<>>]

\* FixedProperty<T>(tag, value)
FixedProperty(tag) ==
    [kind |-> "fixed", control_tag |-> "", options_tag |-> tag, has_options |-> FALSE,
     options |-> <<>>, default_value |-> "", v4l2_control |-> "",
     v4l2_to_metadata |-> <<>>]

\* V4L2EnumControl::NewV4L2EnumControl: the driver is asked for the menu of
\* the control; the values outside the map are dropped, and no component is
\* made when none is left.
NewV4L2EnumControl(menu, v4l2_control, control_tag, options_tag, v4l2_to_metadata) ==
    LET options == MappedOptions(v4l2_to_metadata, menu) IN
    IF options = <<>> THEN NullComponent
    ELSE [kind |-> "enum", control_tag |-> control_tag, options_tag |-> options_tag,
          has_options |-> TRUE, options |-> options, default_value |-> "",
          v4l2_control |-> v4l2_control, v4l2_to_metadata |-> v4l2_to_metadata]

\* The tags a component owns.
StaticTags(component) == {component.options_tag}
ControlTags(component) ==
    IF component.kind = "fixed" THEN {} ELSE {component.control_tag}
DynamicTags(component) ==
    IF component.kind = "fixed" THEN {} ELSE {component.control_tag}
TagsOf(component) ==
    StaticTags(component) \cup ControlTags(component) \cup DynamicTags(component)

\* Metadata::AddComponent
AddComponent(components, component) == Append(components, component)

\* AddEnumControlOrDefault that registers the ignored control next to the
\* enum control.
AddEnumControlOrDefault_Both(components, menu, v4l2_control, control_tag, options_tag, v4l2_to_metadata, default_value) ==
    LET control == NewV4L2EnumControl(menu, v4l2_control, control_tag, options_tag,
                                      v4l2_to_metadata)
        ignored == IgnoredControl(control_tag, options_tag, <<default_value>>,
                                  default_value)
    IN IF control = NullComponent THEN AddComponent(components, ignored)
       ELSE AddComponent(AddComponent(components, control), ignored)

\* V4L2Metadata::AddEnumControlOrDefault
AddEnumControlOrDefault(components, menu, v4l2_control, control_tag, options_tag, v4l2_to_metadata, default_value) ==
    LET control == NewV4L2EnumControl(menu, v4l2_control, control_tag, options_tag,
                                      v4l2_to_metadata)
    IN AddComponent(components,
                    IF control = NullComponent
                    THEN IgnoredControl(control_tag, options_tag, <<default_value>>,
                                        default_value)
                    ELSE control)

\* The white balance component: the preset control, else the simple one,
\* else an ignored control.
AddAwb(components, menus) ==
    LET awb == NewV4L2EnumControl(menus["V4L2_CID_AUTO_N_PRESET_WHITE_BALANCE"],
                                  "V4L2_CID_AUTO_N_PRESET_WHITE_BALANCE",
                                  "ANDROID_CONTROL_AWB_MODE",
                                  "ANDROID_CONTROL_AWB_AVAILABLE_MODES", PresetAwbModes)
    IN IF awb # NullComponent THEN AddComponent(components, awb)
       ELSE AddEnumControlOrDefault(components, menus["V4L2_CID_AUTO_WHITE_BALANCE"],
                                    "V4L2_CID_AUTO_WHITE_BALANCE",
                                    "ANDROID_CONTROL_AWB_MODE",
                                    "ANDROID_CONTROL_AWB_AVAILABLE_MODES",
                                    SimpleAwbModes, "ANDROID_CONTROL_AWB_MODE_AUTO")

\* The components the constructor registers before the white balance one.
ComponentsBeforeAwb(menus) ==
    LET c1 == AddComponent(<<>>, IgnoredControl(
                  "ANDROID_COLOR_CORRECTION_ABERRATION_MODE",
                  "ANDROID_COLOR_CORRECTION_AVAILABLE_ABERRATION_MODES",
                  <<"ANDROID_COLOR_CORRECTION_ABERRATION_MODE_FAST",
                    "ANDROID_COLOR_CORRECTION_ABERRATION_MODE_HIGH_QUALITY">>,
                  "ANDROID_COLOR_CORRECTION_ABERRATION_MODE_FAST"))
        c2 == AddComponent(c1, FixedProperty("ANDROID_CONTROL_MAX_REGIONS"))
        c3 == AddEnumControlOrDefault(c2, menus["V4L2_CID_EXPOSURE_AUTO"],
                  "V4L2_CID_EXPOSURE_AUTO", "ANDROID_CONTROL_AE_MODE",
                  "ANDROID_CONTROL_AE_AVAILABLE_MODES", AeModes,
                  "ANDROID_CONTROL_AE_MODE_ON")
    IN AddEnumControlOrDefault(c3, menus["V4L2_CID_POWER_LINE_FREQUENCY"],
                  "V4L2_CID_POWER_LINE_FREQUENCY", "ANDROID_CONTROL_AE_ANTIBANDING_MODE",
                  "ANDROID_CONTROL_AE_AVAILABLE_ANTIBANDING_MODES", AntibandingModes,
                  "ANDROID_CONTROL_AE_ANTIBANDING_MODE_AUTO")

\* The scene mode, the effect and the components up to the video
\* stabilization.
ComponentsAfterAwb(components, menus) ==
    LET c1 == AddEnumControlOrDefault(components, menus["V4L2_CID_SCENE_MODE"],
                  "V4L2_CID_SCENE_MODE", "ANDROID_CONTROL_SCENE_MODE",
                  "ANDROID_CONTROL_AVAILABLE_SCENE_MODES", SceneModes,
                  "ANDROID_CONTROL_SCENE_MODE_DISABLED")
        c2 == AddEnumControlOrDefault(c1, menus["V4L2_CID_COLORFX"],
                  "V4L2_CID_COLORFX", "ANDROID_CONTROL_EFFECT_MODE",
                  "ANDROID_CONTROL_AVAILABLE_EFFECTS", EffectModes,
                  "ANDROID_CONTROL_EFFECT_MODE_OFF")
        c3 == AddComponent(c2, IgnoredControl("ANDROID_EDGE_MODE",
                  "ANDROID_EDGE_AVAILABLE_EDGE_MODES",
                  <<"ANDROID_EDGE_MODE_FAST">>, "ANDROID_EDGE_MODE_FAST"))
        c4 == AddComponent(c3, IgnoredControl("ANDROID_HOT_PIXEL_MODE",
                  "ANDROID_HOT_PIXEL_AVAILABLE_HOT_PIXEL_MODES",
                  <<"ANDROID_HOT_PIXEL_MODE_FAST", "ANDROID_HOT_PIXEL_MODE_HIGH_QUALITY">>,
                  "ANDROID_HOT_PIXEL_MODE_FAST"))
        c5 == AddComponent(c4, IgnoredControl("ANDROID_STATISTICS_HOT_PIXEL_MAP_MODE",
                  "ANDROID_STATISTICS_INFO_AVAILABLE_HOT_PIXEL_MAP_MODES",
                  <<"ANDROID_STATISTICS_HOT_PIXEL_MAP_MODE_OFF">>,
                  "ANDROID_STATISTICS_HOT_PIXEL_MAP_MODE_OFF"))
        c6 == AddComponent(c5, IgnoredControl("ANDROID_LENS_APERTURE",
                  "ANDROID_LENS_INFO_AVAILABLE_APERTURES", <<"2.0">>, "2.0"))
        c7 == AddComponent(c6, IgnoredControl("ANDROID_LENS_FOCAL_LENGTH",
                  "ANDROID_LENS_INFO_AVAILABLE_FOCAL_LENGTHS", <<"3.04">>, "3.04"))
        c8 == AddComponent(c7, IgnoredControl("ANDROID_LENS_FILTER_DENSITY",
                  "ANDROID_LENS_INFO_AVAILABLE_FILTER_DENSITIES", <<"0.0">>, "0.0"))
        c9 == AddComponent(c8, FixedProperty("ANDROID_LENS_INFO_FOCUS_DISTANCE_CALIBRATION"))
        c10 == AddComponent(c9, IgnoredControl("ANDROID_SHADING_MODE",
                  "ANDROID_SHADING_AVAILABLE_MODES",
                  <<"ANDROID_SHADING_MODE_FAST", "ANDROID_SHADING_MODE_HIGH_QUALITY">>,
                  "ANDROID_SHADING_MODE_FAST"))
        c11 == AddComponent(c10, IgnoredControl("ANDROID_STATISTICS_LENS_SHADING_MAP_MODE",
                  "ANDROID_STATISTICS_INFO_AVAILABLE_LENS_SHADING_MAP_MODES",
                  <<"ANDROID_STATISTICS_LENS_SHADING_MAP_MODE_OFF">>,
                  "ANDROID_STATISTICS_LENS_SHADING_MAP_MODE_OFF"))
    IN AddEnumControlOrDefault(c11, menus["V4L2_CID_IMAGE_STABILIZATION"],
                  "V4L2_CID_IMAGE_STABILIZATION",
                  "ANDROID_CONTROL_VIDEO_STABILIZATION_MODE",
                  "ANDROID_CONTROL_AVAILABLE_VIDEO_STABILIZATION_MODES",
                  StabilizationModes, "ANDROID_CONTROL_VIDEO_STABILIZATION_MODE_OFF")

\* The components that follow the video stabilization.
ComponentsAfterStabilization(components) ==
    LET c1 == AddComponent(components, IgnoredControl(
                  "ANDROID_LENS_OPTICAL_STABILIZATION_MODE",
                  "ANDROID_LENS_INFO_AVAILABLE_OPTICAL_STABILIZATION",
                  <<"ANDROID_LENS_OPTICAL_STABILIZATION_MODE_OFF">>,
                  "ANDROID_LENS_OPTICAL_STABILIZATION_MODE_OFF"))
        c2 == AddComponent(c1, IgnoredControl("ANDROID_NOISE_REDUCTION_MODE",
                  "ANDROID_NOISE_REDUCTION_AVAILABLE_NOISE_REDUCTION_MODES",
                  <<"ANDROID_NOISE_REDUCTION_MODE_FAST">>,
                  "ANDROID_NOISE_REDUCTION_MODE_FAST"))
        c3 == AddComponent(c2, IgnoredControl("ANDROID_JPEG_THUMBNAIL_SIZE",
                  "ANDROID_JPEG_AVAILABLE_THUMBNAIL_SIZES", <<"0x0">>, "0x0"))
        fixed == <<"ANDROID_REQUEST_MAX_NUM_OUTPUT_STREAMS",
                   "ANDROID_REQUEST_MAX_NUM_INPUT_STREAMS",
                   "ANDROID_REQUEST_PIPELINE_MAX_DEPTH",
                   "ANDROID_SYNC_MAX_LATENCY",
                   "ANDROID_SCALER_CROPPING_TYPE",
                   "ANDROID_SENSOR_INFO_PHYSICAL_SIZE",
                   "ANDROID_SENSOR_INFO_TIMESTAMP_SOURCE",
                   "ANDROID_SENSOR_ORIENTATION">>
        c4 == c3 \o [i \in 1..Len(fixed) |-> FixedProperty(fixed[i])]
        c5 == AddComponent(c4, IgnoredControl("ANDROID_STATISTICS_FACE_DETECT_MODE",
                  "ANDROID_STATISTICS_INFO_AVAILABLE_FACE_DETECT_MODES",
                  <<"ANDROID_STATISTICS_FACE_DETECT_MODE_OFF">>,
                  "ANDROID_STATISTICS_FACE_DETECT_MODE_OFF"))
        c6 == AddComponent(c5, FixedProperty("ANDROID_STATISTICS_INFO_MAX_FACE_COUNT"))
        c7 == AddComponent(c6, FixedProperty("ANDROID_INFO_SUPPORTED_HARDWARE_LEVEL"))
    IN AddComponent(c7, FixedProperty("ANDROID_REQUEST_AVAILABLE_CAPABILITIES"))

\* The menus a driver can offer: for each control either nothing (the
\* control is missing) or every value of the map.
DriverMenus ==
    [V4L2Controls -> BOOLEAN]

MenuOf(present, cid) ==
    IF present[cid] THEN {EnumMaps[cid][i][1] : i \in 1..Len(EnumMaps[cid])} ELSE {}

\* V4L2Metadata::V4L2Metadata on a driver that offers the controls of
\* present.
V4L2Metadata(present) ==
    LET menus == [cid \in V4L2Controls |-> MenuOf(present, cid)] IN
    ComponentsAfterStabilization(
        ComponentsAfterAwb(AddAwb(ComponentsBeforeAwb(menus), menus), menus))

\* The registry is built.
Built == components_ # <<>>

\* PartialMetadataInterface::SupportsRequestValues of a registered
\* component; a property accepts every request.
ComponentSupportsRequestValues(component, md) ==
    component.kind = "fixed" \/ SupportsRequestValues(component, md)

\* Metadata::IsValidRequest: every component accepts the request.
IsValidRequest(components, md) ==
    \A i \in 1..Len(components) : ComponentSupportsRequestValues(components[i], md)

\* What SetValue of a component's delegate does with the driver's controls:
\* an ignored control drops the value; an enum control hands the V4L2 value
\* to V4L2Wrapper::SetControl, which fails for the control fail_cid, and the
\* driver keeps its own value for the control coerce_cid.
DelegateSetValue(component, value, controls, fail_cid, coerce_cid) ==
    IF component.kind # "enum" THEN [res |-> 0, controls |-> controls]
    ELSE IF component.v4l2_control = fail_cid
    THEN [res |-> -ENODEV, controls |-> controls]
    ELSE [res |-> 0,
          controls |-> [controls EXCEPT ![component.v4l2_control] =
                           IF component.v4l2_control = coerce_cid
                           THEN DriverDefault(component.v4l2_control)
                           ELSE ToV4L2(component.v4l2_to_metadata, value)]]

\* The delegate's GetValue: the default of an ignored control, the value of
\* the driver's control for an enum control.
DelegateGetValue(component, controls) ==
    IF component.kind = "enum"
    THEN ToMetadata(component.v4l2_to_metadata, controls[component.v4l2_control])
    ELSE component.default_value

\* The component holds a value of the request that it hands to its
\* delegate.
Writes(component, md) ==
    /\ component.kind # "fixed"
    /\ component.control_tag \in DOMAIN md
    /\ SupportsRequestValues(component, md)

\* SetRequestValues of a registered component: the result and the driver's
\* controls after it.
ComponentSetRequestValues(component, md, controls, fail_cid, coerce_cid) ==
    IF component.kind = "fixed" THEN [res |-> 0, controls |-> controls]
    ELSE LET set == IF Writes(component, md)
                    THEN DelegateSetValue(component, md[component.control_tag][1],
                                          controls, fail_cid, coerce_cid)
                    ELSE [res |-> 0, controls |-> controls]
         IN [res |-> SetRequestValues(component, md, set.res).res,
             controls |-> set.controls]

\* The loop of SetRequestSettings over the registry: SetRequestValues of
\* each component in turn until one fails.  The result, the driver's
\* controls, the components called and the values handed to the delegates.
ApplyComponents(components, md, controls, fail_cid, coerce_cid) ==
    LET Res(i) == ComponentSetRequestValues(components[i], md, controls,
                                            fail_cid, coerce_cid).res
        failing == {i \in 1..Len(components) : Res(i) # 0}
        last == IF failing = {} THEN Len(components)
                ELSE CHOOSE i \in failing : \A j \in failing : i <= j
        applied == [i \in 1..last |-> i]
        written == SelectSeq(applied, LAMBDA i : Writes(components[i], md))
        After(cid) ==
            IF \E i \in Range(written) : components[i].v4l2_control = cid
            THEN LET i == CHOOSE i \in Range(written) : components[i].v4l2_control = cid
                 IN ComponentSetRequestValues(components[i], md, controls,
                                              fail_cid, coerce_cid).controls[cid]
            ELSE controls[cid]
    IN [res |-> IF failing = {} THEN 0 ELSE Res(last),
        controls |-> [cid \in V4L2Controls |-> After(cid)],
        applied |-> applied,
        writes |-> [k \in 1..Len(written) |->
                      [index |-> written[k],
                       tag |-> components[written[k]].control_tag,
                       value |-> md[components[written[k]].control_tag][1]]]]

\* SetRequestSettings that applies the settings without validating them.
SetRequestSettings_NoValidation(components, md, controls, fail_cid, coerce_cid) ==
    ApplyComponents(components, md, controls, fail_cid, coerce_cid)

\* Metadata::SetRequestSettings: the request is validated, then every
\* component applies its part, in the order of the registry.
SetRequestSettings(components, md, controls, fail_cid, coerce_cid) ==
    IF ~IsValidRequest(components, md)
    THEN [res |-> -EINVAL, controls |-> controls, applied |-> <<>>, writes |-> <<>>]
    ELSE ApplyComponents(components, md, controls, fail_cid, coerce_cid)

\* The components with a dynamic tag.
DynamicComponents(components) ==
    {i \in 1..Len(components) : DynamicTags(components[i]) # {}}

\* Metadata::FillResultMetadata: every component's PopulateDynamic; reading
\* the control fail_cid fails.
FillResultMetadata(components, controls, fail_cid) ==
    IF \E i \in DynamicComponents(components) :
          components[i].kind = "enum" /\ components[i].v4l2_control = fail_cid
    THEN [res |-> -ENODEV, metadata |-> EmptyMetadata]
    ELSE [res |-> 0,
          metadata |->
             [tag \in UNION {DynamicTags(components[i]) : i \in DynamicComponents(components)} |->
                LET i == CHOOSE i \in DynamicComponents(components) :
                             tag \in DynamicTags(components[i])
                IN <<DelegateGetValue(components[i], controls)>>]]

\* The request settings of the model.
Setting(tag, values) == [t \in {tag} |-> values]

RegistryRequests ==
    {EmptyMetadata,
     Setting("ANDROID_COLOR_CORRECTION_ABERRATION_MODE",
             <<"ANDROID_COLOR_CORRECTION_ABERRATION_MODE_FAST">>),
     Setting("ANDROID_COLOR_CORRECTION_ABERRATION_MODE",
             <<"ANDROID_COLOR_CORRECTION_ABERRATION_MODE_HIGH_QUALITY">>),
     Setting("ANDROID_COLOR_CORRECTION_ABERRATION_MODE",
             <<"ANDROID_COLOR_CORRECTION_ABERRATION_MODE_OFF">>),
     Setting("ANDROID_CONTROL_AE_MODE", <<"ANDROID_CONTROL_AE_MODE_OFF">>),
     Setting("ANDROID_CONTROL_AE_MODE", <<"ANDROID_CONTROL_AE_MODE_ON">>),
     Setting("ANDROID_CONTROL_AE_MODE",
             <<"ANDROID_CONTROL_AE_MODE_OFF", "ANDROID_CONTROL_AE_MODE_ON">>),
     Setting("ANDROID_CONTROL_AE_MODE", <<"ANDROID_CONTROL_AE_MODE_OFF">>)
        @@ Setting("ANDROID_CONTROL_AWB_MODE", <<"ANDROID_CONTROL_AWB_MODE_OFF">>),
     Setting("ANDROID_CONTROL_AE_MODE", <<"ANDROID_CONTROL_AE_MODE_OFF">>)
        @@ Setting("ANDROID_EDGE_MODE", <<"ANDROID_EDGE_MODE_OFF">>),
     Setting("ANDROID_CONTROL_AWB_MODE", <<"ANDROID_CONTROL_AWB_MODE_SHADE">>)
        @@ Setting("ANDROID_SHADING_MODE", <<"ANDROID_SHADING_MODE_FAST">>)}

\* The controls whose ioctl the driver may fail, and those whose value it
\* may replace by its own; "" stands for none.
FaultyControls == {"", "V4L2_CID_AUTO_N_PRESET_WHITE_BALANCE"}
CoercedControls == {"", "V4L2_CID_EXPOSURE_AUTO"}

\* V4L2Metadata is constructed on a driver.
V4L2MetadataCtor ==
    /\ ~Built
    /\ \E present \in DriverMenus :
         /\ components_' = V4L2Metadata(present)
         /\ lastOp' = [op |-> "V4L2Metadata", present |-> present]
    /\ UNCHANGED <<device_fd, wrapVars, cameraVars, capture, infoVars,
                   device_lock_, wrapperCalls, errno, controls_>>

\* Metadata::IsValidRequest is called.
MetadataIsValidRequest ==
    /\ Built
    /\ \E md \in RegistryRequests :
         lastOp' = [op |-> "IsValidRequest", md |-> md,
                    ret |-> IsValidRequest(components_, md)]
    /\ UNCHANGED <<device_fd, wrapVars, cameraVars, capture, infoVars, metaVars>>

\* Metadata::SetRequestSettings is called.
MetadataSetRequestSettings ==
    /\ Built
    /\ \E md \in RegistryRequests, fail_cid \in FaultyControls,
          coerce_cid \in CoercedControls :
         LET r == SetRequestSettings(components_, md, controls_, fail_cid, coerce_cid) IN
         /\ controls_' = r.controls
         /\ lastOp' = [op |-> "SetRequestSettings", md |-> md, ret |-> r.res,
                       applied |-> r.applied, writes |-> r.writes,
                       fail_cid |-> fail_cid, before |-> controls_]
    /\ UNCHANGED <<device_fd, wrapVars, cameraVars, capture, infoVars,
                   device_lock_, wrapperCalls, errno, components_>>

\* Metadata::FillResultMetadata is called.
MetadataFillResultMetadata ==
    /\ Built
    /\ \E fail_cid \in FaultyControls :
         LET r == FillResultMetadata(components_, controls_, fail_cid) IN
         lastOp' = [op |-> "FillResultMetadata", ret |-> r.res,
                    metadata |-> r.metadata]
    /\ UNCHANGED <<device_fd, wrapVars, cameraVars, capture, infoVars, metaVars>>

(* ---------------------------------------------------------------------- *)
(* The wrapper's methods as the threads run them: the steps of each method *)
(* that take or release device_lock_, touch a guarded member or enter an   *)
(* ioctl.                                                                  *)
(* ---------------------------------------------------------------------- *)
\* One step of a method: its kind and the member or ioctl it is about.
Step(k, x) == [k |-> k, x |-> x]

\* V4L2Wrapper::IoctlLocked: lock_guard on device_lock_, connected(), ioctl.
IoctlLockedSteps(request) ==
    <<Step("lock", "device_lock_"), Step("read", "device_fd_"),
      Step("ioctl", request), Step("ioctl_done", request),
      Step("unlock", "device_lock_")>>

\* V4L2Wrapper::Connect holds the lock from its first line to its return.
ConnectSteps ==
    <<Step("lock", "device_lock_"), Step("read", "device_fd_"),
      Step("write", "device_fd_"),
      Step("ioctl", "VIDIOC_QUERY_EXT_CTRL"), Step("ioctl_done", "VIDIOC_QUERY_EXT_CTRL"),
      Step("write", "extended_query_supported_"),
      Step("unlock", "device_lock_")>>

\* V4L2Wrapper::Disconnect holds the lock from its first line to its return.
DisconnectSteps ==
    <<Step("lock", "device_lock_"), Step("write", "device_fd_"),
      Step("write", "format_"), Step("write", "max_buffers_"),
      Step("unlock", "device_lock_")>>

\* V4L2Wrapper::StreamOn tests format_, then calls IoctlLocked.
StreamOnSteps ==
    <<Step("read", "format_")>> \o IoctlLockedSteps("VIDIOC_STREAMON")

\* V4L2Wrapper::QueryControl tests extended_query_supported_, then calls
\* IoctlLocked.
QueryControlSteps ==
    <<Step("read", "extended_query_supported_")>>
    \o IoctlLockedSteps("VIDIOC_QUERY_EXT_CTRL")

\* V4L2Wrapper::SetupBuffers tests format_, calls IoctlLocked and stores
\* max_buffers_.
SetupBuffersSteps ==
    <<Step("read", "format_")>> \o IoctlLockedSteps("VIDIOC_REQBUFS")
    \o <<Step("write", "max_buffers_"), Step("read", "max_buffers_")>>

\* V4L2Wrapper::SetFormat compares format_, calls IoctlLocked, stores
\* format_, calls SetupBuffers and reads max_buffers_.
SetFormatSteps ==
    <<Step("read", "format_")>> \o IoctlLockedSteps("VIDIOC_S_FMT")
    \o <<Step("write", "format_")>> \o SetupBuffersSteps
    \o <<Step("read", "max_buffers_")>>

\* The methods the threads call.
Methods == {"Connect", "Disconnect", "StreamOn", "QueryControl", "SetFormat"}

StepsOf(method) ==
    CASE method = "Connect" -> ConnectSteps
      [] method = "Disconnect" -> DisconnectSteps
      [] method = "StreamOn" -> StreamOnSteps
      [] method = "QueryControl" -> QueryControlSteps
      [] method = "SetFormat" -> SetFormatSteps

\* A thread that is in no method of the wrapper.
NotCalling == [op |-> "idle", pc |-> 0]

\* Thread t is between the entry and the return of an ioctl.
InIoctl(t) ==
    /\ wrapperCalls[t].pc > 0
    /\ StepsOf(wrapperCalls[t].op)[wrapperCalls[t].pc].k = "ioctl"

\* Thread t calls a method of the wrapper.
WrapperEnter(t) ==
    /\ wrapperCalls[t] = NotCalling
    /\ \E method \in Methods :
         /\ wrapperCalls' = [wrapperCalls EXCEPT ![t] = [op |-> method, pc |-> 0]]
         /\ lastOp' = [op |-> "enter", thread |-> t, method |-> method]
    /\ UNCHANGED <<device_fd, wrapVars, cameraVars, capture, infoVars,
                   device_lock_, errno, registryVars>>

\* Thread t runs the next step of the method it is in; the lock is taken
\* when it is free, and the method returns after its last step.
WrapperStep(t) ==
    /\ wrapperCalls[t] # NotCalling
    /\ LET steps == StepsOf(wrapperCalls[t].op)
           pc == wrapperCalls[t].pc + 1
           step == steps[pc]
       IN
       /\ step.k = "lock" => device_lock_ = NULL
       /\ device_lock_' = CASE step.k = "lock" -> t
                            [] step.k = "unlock" -> NULL
                            [] OTHER -> device_lock_
       /\ wrapperCalls' = [wrapperCalls EXCEPT ![t] =
              IF pc = Len(steps) THEN NotCalling ELSE [@ EXCEPT !.pc = pc]]
       /\ lastOp' = [op |-> "step", thread |-> t, method |-> wrapperCalls[t].op,
                     step |-> step, held |-> device_lock_ = t]
    /\ UNCHANGED <<device_fd, wrapVars, cameraVars, capture, infoVars, errno,
                   registryVars>>

(* ---------------------------------------------------------------------- *)
(* SetFormat and SetupBuffers run by several threads, with the values of   *)
(* the members: Connect, Disconnect and IoctlLocked hold device_lock_ for  *)
(* their whole body, the other member accesses are made without it.        *)
(* ---------------------------------------------------------------------- *)
\* Thread t returns from the method it is in.
Return(t, method, res) ==
    /\ wrapperCalls' = [wrapperCalls EXCEPT ![t] = NotCalling]
    /\ lastOp' = [op |-> "return", thread |-> t, method |-> method, ret |-> res]

\* Thread t moves to position pc of SetFormat: 1 before VIDIOC_S_FMT, 2 before
\* the store of format_, 3 at the entry of SetupBuffers, 4 before
\* VIDIOC_REQBUFS, 5 before the store of max_buffers_.
Goto(t, pc) ==
    /\ wrapperCalls' = [wrapperCalls EXCEPT ![t] = [@ EXCEPT !.pc = pc]]
    /\ lastOp' = [op |-> "step", thread |-> t, method |-> wrapperCalls[t].op,
                  pc |-> pc]

\* V4L2Wrapper::Connect called by thread t.
ThreadConnect(t) ==
    /\ wrapperCalls[t] = NotCalling
    /\ device_lock_ = NULL
    /\ \E o \in OpenResults, probe \in {"yes", "no"} :
         LET c == Connect(device_fd, o) IN
         /\ device_fd' = c.device_fd
         /\ extended_query_supported_' =
                IF c.res = 0 THEN probe ELSE extended_query_supported_
         /\ lastOp' = [op |-> "return", thread |-> t, method |-> "Connect",
                       ret |-> c.res]
    /\ UNCHANGED <<format_, max_buffers_, gralloc_, driver,
                   cameraVars, metaVars, capture, infoVars>>

\* V4L2Wrapper::Disconnect called by thread t.
ThreadDisconnect(t) ==
    /\ wrapperCalls[t] = NotCalling
    /\ device_lock_ = NULL
    /\ SetW(Disconnect(W))
    /\ lastOp' = [op |-> "return", thread |-> t, method |-> "Disconnect",
                  ret |-> 0]
    /\ UNCHANGED <<cameraVars, metaVars, capture, infoVars>>

\* V4L2Wrapper::SetFormat, entry: the input test and the comparison with
\* format_.
SetFormatCompare(t) ==
    /\ wrapperCalls[t] = NotCalling
    /\ \E s \in FormatStreams :
         IF isInputType(s) THEN Return(t, "SetFormat", -EINVAL)
         ELSE IF formatMatches(W, StreamFormat(s)) THEN Return(t, "SetFormat", 0)
         ELSE /\ wrapperCalls' = [wrapperCalls EXCEPT ![t] =
                     [op |-> "SetFormat", pc |-> 1, stream |-> s]]
              /\ lastOp' = [op |-> "enter", thread |-> t, method |-> "SetFormat",
                            stream |-> s]
    /\ UNCHANGED <<device_fd, wrapVars, cameraVars, capture, infoVars,
                   device_lock_, errno, registryVars>>

\* V4L2Wrapper::SetFormat: IoctlLocked(VIDIOC_S_FMT) and the check of the
\* format the driver set.
SetFormatIoctl(t) ==
    /\ wrapperCalls[t].op = "SetFormat" /\ wrapperCalls[t].pc = 1
    /\ device_lock_ = NULL
    /\ \E sfmt \in SFmtResults :
         LET io == IoctlLocked(W, "VIDIOC_S_FMT", IF sfmt = "fail" THEN -1 ELSE 0) IN
         IF io.res < 0
         THEN Return(t, "SetFormat", -ENODEV) /\ UNCHANGED driver
         ELSE /\ driver' = [driver EXCEPT !.count = 0]
              /\ IF sfmt = "coerced" THEN Return(t, "SetFormat", -EINVAL)
                 ELSE Goto(t, 2)
    /\ UNCHANGED <<device_fd, extended_query_supported_, format_, max_buffers_,
                   gralloc_, cameraVars, capture, infoVars,
                   device_lock_, errno, registryVars>>

\* V4L2Wrapper::SetFormat: format_.reset(new StreamFormat(new_format))
SetFormatStore(t) ==
    /\ wrapperCalls[t].op = "SetFormat" /\ wrapperCalls[t].pc = 2
    /\ format_' = StreamFormat(wrapperCalls[t].stream)
    /\ Goto(t, 3)
    /\ UNCHANGED <<device_fd, extended_query_supported_, max_buffers_,
                   gralloc_, driver, cameraVars, capture, infoVars,
                   device_lock_, errno, registryVars>>

\* V4L2Wrapper::SetupBuffers, entry: the test of format_.
SetupBuffersTest(t) ==
    /\ wrapperCalls[t].op = "SetFormat" /\ wrapperCalls[t].pc = 3
    /\ IF ~format_.set THEN Return(t, "SetFormat", -ENODEV)
       ELSE Goto(t, 4)
    /\ UNCHANGED <<device_fd, wrapVars, cameraVars, capture, infoVars,
                   device_lock_, errno, registryVars>>

\* V4L2Wrapper::SetupBuffers: IoctlLocked(VIDIOC_REQBUFS), unlockAllBuffers
\* and the two error returns.
SetupBuffersIoctl(t) ==
    /\ wrapperCalls[t].op = "SetFormat" /\ wrapperCalls[t].pc = 4
    /\ device_lock_ = NULL
    /\ \E req \in ReqbufsResults, gr \in GrallocResults :
         LET io == IoctlLocked(W, "VIDIOC_REQBUFS", IF req < 0 THEN -1 ELSE 0) IN
         /\ gralloc_' = {}
         /\ driver' = IF io.res < 0 THEN driver
                      ELSE [driver EXCEPT !.queued = <<>>, !.count = req]
         /\ IF io.res < 0 THEN Return(t, "SetFormat", -ENODEV)
            ELSE IF gr < 0 THEN Return(t, "SetFormat", gr)
            ELSE /\ wrapperCalls' = [wrapperCalls EXCEPT ![t] =
                        [op |-> "SetFormat", pc |-> 5, count |-> req]]
                 /\ lastOp' = [op |-> "step", thread |-> t, method |-> "SetFormat",
                               pc |-> 5]
    /\ UNCHANGED <<device_fd, extended_query_supported_, format_, max_buffers_,
                   cameraVars, capture, infoVars, device_lock_, errno,
                   registryVars>>

\* V4L2Wrapper::SetupBuffers: max_buffers_ = req_buffers.count, the sanity
\* check and the return of SetFormat.
SetupBuffersStore(t) ==
    /\ wrapperCalls[t].op = "SetFormat" /\ wrapperCalls[t].pc = 5
    /\ max_buffers_' = wrapperCalls[t].count
    /\ Return(t, "SetFormat", IF wrapperCalls[t].count < 1 THEN -ENODEV ELSE 0)
    /\ UNCHANGED <<device_fd, extended_query_supported_, format_,
                   gralloc_, driver, cameraVars, capture, infoVars,
                   device_lock_, errno, registryVars>>

(* ---------------------------------------------------------------------- *)
(* configureStreams and processCaptureRequest run by several threads:      *)
(* configureStreams clears mSettingsSet before it takes mDeviceLock, and   *)
(* processCaptureRequest takes no lock.                                    *)
(* ---------------------------------------------------------------------- *)
\* Thread u has flag f set in its record.
Flag(u, f) == f \in DOMAIN callers[u] /\ callers[u][f]

\* A request with non-empty settings has passed isValidRequest since the
\* latest configureStreams call began.
validatedSince == \E u \in Threads : Flag(u, "validated")

\* Some configureStreams call has returned, and none is running.
configureReturned ==
    /\ \E u \in Threads : Flag(u, "returned")
    /\ \A u \in Threads : callers[u].pc # "configure"

\* The record of thread u at position pc.
Caller(u, pc, validated) ==
    [pc |-> pc, validated |-> validated, returned |-> Flag(u, "returned")]

\* Camera::configureStreams, first statement: mSettingsSet = false.
ConfigureClear(t) ==
    /\ callers[t].pc = "idle"
    /\ mBusy
    /\ \A u \in Threads : callers[u].pc # "configure"
    /\ mSettingsSet' = FALSE
    /\ callers' = [u \in Threads |->
                     IF u = t THEN Caller(u, "configure", FALSE)
                     ELSE IF callers[u].pc = "set"
                     THEN [callers[u] EXCEPT !.validated = FALSE]
                     ELSE Caller(u, callers[u].pc, FALSE)]
    /\ lastOp' = [op |-> "enter", thread |-> t, method |-> "configureStreams"]
    /\ UNCHANGED <<devVars, mCallbackOps, streamVars, pipeVars, wrapVars, capture,
                   mStaticInfo, mTemplates, mStaticInfoLock, inits, metaVars>>

\* Camera::configureStreams from the taking of mDeviceLock to the return.
ConfigureReturn(t) ==
    /\ callers[t].pc = "configure"
    /\ ConfigureStreamsLocked({BaseDesc}, 1)
    /\ callers' = [callers EXCEPT ![t] = [@ EXCEPT !.pc = "idle", !.returned = TRUE]]
    /\ UNCHANGED <<devVars, mCallbackOps, mSettingsSet, pipeVars, wrapVars, capture,
                   mStaticInfo, mTemplates, mStaticInfoLock, inits, metaVars>>

\* Camera::processCaptureRequest up to isValidRequest: the test of
\* mSettingsSet and the validation of the request.
ProcessValidate(t) ==
    /\ callers[t].pc = "idle"
    /\ mBusy
    /\ mCallbackOps
    /\ nextFrame <= MaxFrames
    /\ \E r \in Requests :
         LET request == CaptureRequest(r, nextFrame)
             rejected == \/ (request.settings.kind = "empty" /\ ~mSettingsSet)
                         \/ ~isValidRequest(request)
         IN
         /\ callers' = [callers EXCEPT ![t] =
                IF rejected THEN Caller(t, "idle", Flag(t, "validated"))
                ELSE [pc |-> "set",
                      validated |-> Flag(t, "validated") \/ r.settings # "empty",
                      returned |-> Flag(t, "returned"), r |-> r,
                      frame |-> nextFrame, after_configure |-> configureReturned]]
         /\ lastOp' = [op |-> "processCaptureRequest", thread |-> t,
                       ret |-> IF rejected THEN -EINVAL ELSE 0,
                       returned |-> ~rejected, accepted |-> FALSE,
                       settings |-> r.settings]
    /\ nextFrame' = nextFrame + 1
    /\ UNCHANGED <<devVars, mCallbackOps, mSettingsSet, streamVars, request_queue,
                   in_flight, callbacks, wrapVars, capture,
                   mStaticInfo, mTemplates, mStaticInfoLock, inits, metaVars>>

\* Camera::processCaptureRequest from mSettingsSet = true to the return.
\* after_configure tells whether the call was made after a configureStreams
\* call had returned.
ProcessSet(t) ==
    /\ callers[t].pc = "set"
    /\ LET r == callers[t].r
           p == processCaptureRequest(CaptureRequest(r, callers[t].frame), r.fences,
                                      TRUE, request_queue)
       IN
       /\ mSettingsSet' = p.mSettingsSet
       /\ request_queue' = p.request_queue
       /\ lastOp' = [op |-> "processCaptureRequest", thread |-> t, ret |-> p.ret,
                     returned |-> TRUE, accepted |-> (p.ret = 0),
                     settings |-> r.settings,
                     after_configure |-> callers[t].after_configure,
                     validated |-> validatedSince]
    /\ callers' = [callers EXCEPT ![t] = Caller(t, "idle", Flag(t, "validated"))]
    /\ UNCHANGED <<devVars, mCallbackOps, streamVars, in_flight, nextFrame,
                   callbacks, wrapVars, capture,
                   mStaticInfo, mTemplates, mStaticInfoLock, inits, metaVars>>

(* ---------------------------------------------------------------------- *)
(* The specification.                                                      *)
(* ---------------------------------------------------------------------- *)
Init ==
    /\ mBusy = FALSE
    /\ mConnection = "none"
    /\ device_fd = FALSE
    /\ mCallbackOps = FALSE
    /\ mSettingsSet = FALSE
    /\ mStreams = <<>>
    /\ mNumStreams = 0
    /\ heap = [id \in StreamIds |-> Dead]
    /\ request_queue = <<>>
    /\ in_flight = <<>>
    /\ nextFrame = 1
    /\ callbacks = <<>>
    /\ extended_query_supported_ = "unset"
    /\ format_ = NoFormat
    /\ max_buffers_ = 0
    /\ gralloc_ = {}
    /\ driver = IdleDriver
    /\ capture = [t \in Threads |-> [pc |-> "idle"]]
    /\ mStaticInfo = FALSE
    /\ mTemplates = [type \in TemplateTypes |-> FALSE]
    /\ mStaticInfoLock = NULL
    /\ callers = [t \in Threads |-> [pc |-> "idle"]]
    /\ inits = [b \in Blocks |-> 0]
    /\ device_lock_ = NULL
    /\ wrapperCalls = [t \in Threads |-> [op |-> "idle", pc |-> 0]]
    /\ errno = 0
    /\ components_ = <<>>
    /\ controls_ = [cid \in V4L2Controls |-> DriverDefault(cid)]
    /\ lastOp = [op |-> "constructor"]

\* The capture pipeline of one camera: requests are submitted and the two
\* workers complete them.
Next ==
    \/ OpenDevice
    \/ Close
    \/ Initialize
    \/ ProcessCaptureRequest
    \/ EnqueueRequestBuffers
    \/ DequeueRequestBuffers

Spec == Init /\ [][Next]_vars

\* Opening, closing and configuring one camera with any stream set.
StreamNext ==
    \/ OpenDevice
    \/ Close
    \/ ConfigureStreams

StreamSpec == Init /\ [][StreamNext]_vars

\* Submitting requests between configurations of the base stream.
SubmitNext ==
    \/ OpenDevice
    \/ Initialize
    \/ ConfigureBaseStream
    \/ ProcessCaptureRequest

SubmitSpec == Init /\ [][SubmitNext]_vars

\* The preprocessing of single buffers.
FenceNext == PreprocessCaptureBuffer

FenceSpec == Init /\ [][FenceNext]_vars

\* The fps ranges of the characteristics and of the templates.
FpsNext == InitTemplatesFps

FpsSpec == Init /\ [][FpsNext]_vars

\* The format the driver holds: the one VIDIOC_S_FMT applied most recently on
\* this connection, or none.
appliedFormat == IF "applied" \in DOMAIN lastOp THEN lastOp.applied ELSE NoFormat

\* VIDIOC_S_FMT writes the format the driver chose into new_format: the
\* requested one, or one the driver changed it to.
driverFormat(desired, sfmt) ==
    IF sfmt = "coerced" THEN [desired EXCEPT !.width = desired.width \div 2]
    ELSE desired

\* V4L2Wrapper::Connect on the wrapper whose driver format is followed.
FormatConnect ==
    \E o \in OpenResults, probe \in {"yes", "no"} :
        LET c == Connect(device_fd, o) IN
        /\ device_fd' = c.device_fd
        /\ extended_query_supported_' =
               IF c.res = 0 THEN probe ELSE extended_query_supported_
        /\ lastOp' = [op |-> "Connect", ret |-> c.res, applied |-> appliedFormat]
        /\ UNCHANGED <<format_, max_buffers_, gralloc_, driver,
                       cameraVars, metaVars, capture, infoVars>>

\* V4L2Wrapper::SetFormat, with the format the driver is left in.
FormatSetFormat ==
    \E s \in FormatStreams, prior \in PriorMaxBuffers, sfmt \in SFmtResults,
       req \in ReqbufsResults, gr \in GrallocResults :
        LET r == SetFormat(W, s, prior, sfmt, req, gr) IN
        /\ SetW(r.w)
        /\ lastOp' = [op |-> "SetFormat", ret |-> r.res, ioctls |-> r.ioctls,
                      stream |-> s, sfmt |-> sfmt, before |-> appliedFormat,
                      applied |-> IF r.ioctls # <<>> /\ sfmt # "fail"
                                  THEN driverFormat(StreamFormat(s), sfmt)
                                  ELSE appliedFormat]
        /\ UNCHANGED <<cameraVars, metaVars, capture, infoVars>>

\* Connect and any sequence of SetFormat calls.
FormatNext == FormatConnect \/ FormatSetFormat
FormatSpec == Init /\ [][FormatNext]_vars

\* Any sequence of calls on one wrapper.
WrapperNext ==
    \/ WrapperConnect
    \/ WrapperDisconnect
    \/ WrapperStreamOn
    \/ WrapperStreamOff
    \/ WrapperQueryControl
    \/ WrapperGetControl
    \/ WrapperSetControl
    \/ WrapperSetFormat
    \/ WrapperEnqueueBuffer
    \/ WrapperDequeueBuffer

WrapperSpec == Init /\ [][WrapperNext]_vars

\* getInfo and constructDefaultRequestSettings, one call at a time.
TemplateNext ==
    \/ ConstructDefaultRequestSettings
    \/ GetInfo

TemplateSpec == Init /\ [][TemplateNext]_vars

\* getInfo and constructDefaultRequestSettings called from several threads.
InfoNext ==
    \E t \in Threads :
        \/ ConstructBegin(t)
        \/ ConstructEnd(t)
        \/ GetInfoBegin(t)
        \/ GetInfoEnd(t)

InfoSpec == Init /\ [][InfoNext]_vars

\* Requests captured synchronously by the threads that submit them.
CaptureNext ==
    \/ WrapperConnect
    \/ CaptureSetFormat
    \/ \E t \in Threads :
        \/ CaptureEnqueueBuffer(t)
        \/ CaptureStreamOn(t)
        \/ CaptureDequeueBuffer(t)
        \/ CaptureStreamOff(t)

CaptureSpec == Init /\ [][CaptureNext]_vars

\* Connecting, disconnecting and the control calls of one thread.
ControlNext ==
    \/ ControlConnect
    \/ WrapperDisconnect
    \/ ControlGetControl
    \/ ControlSetControl
    \/ ControlQueryControl

ControlSpec == Init /\ [][ControlNext]_vars

\* Calls on one control and on one menu of options.
PartialNext ==
    \/ MenuIsSupported
    \/ MenuDefaultValueForTemplate
    \/ ControlSupportsRequestValues
    \/ ControlSetRequestValues

PartialSpec == Init /\ [][PartialNext]_vars

\* The registry of V4L2Metadata: its construction and its requests.
MetadataNext ==
    \/ V4L2MetadataCtor
    \/ MetadataIsValidRequest
    \/ MetadataSetRequestSettings
    \/ MetadataFillResultMetadata

MetadataSpec == Init /\ [][MetadataNext]_vars

\* configure_streams and process_capture_request called from several threads
\* on an open camera.
SettingsNext ==
    \/ OpenDevice
    \/ Initialize
    \/ \E t \in Threads :
        \/ ConfigureClear(t)
        \/ ConfigureReturn(t)
        \/ ProcessValidate(t)
        \/ ProcessSet(t)

SettingsSpec == Init /\ [][SettingsNext]_vars

\* Connect, Disconnect and SetFormat called from several threads.
RaceNext ==
    \E t \in Threads :
        \/ ThreadConnect(t)
        \/ ThreadDisconnect(t)
        \/ SetFormatCompare(t)
        \/ SetFormatIoctl(t)
        \/ SetFormatStore(t)
        \/ SetupBuffersTest(t)
        \/ SetupBuffersIoctl(t)
        \/ SetupBuffersStore(t)

RaceSpec == Init /\ [][RaceNext]_vars

\* The wrapper's methods called from several threads.
LockNext ==
    \E t \in Threads :
        \/ WrapperEnter(t)
        \/ WrapperStep(t)

LockSpec == Init /\ [][LockNext]_vars

\* The workers run whenever they have a request to work on.
FairSpec == Spec /\ WF_vars(EnqueueRequestBuffers) /\ WF_vars(DequeueRequestBuffers)

TypeOK ==
    /\ mBusy \in BOOLEAN
    /\ mConnection \in {"none", "connected", "failed"}
    /\ device_fd \in BOOLEAN
    /\ mCallbackOps \in BOOLEAN
    /\ mSettingsSet \in BOOLEAN
    /\ mNumStreams \in 0..MaxStreams
    /\ Len(mStreams) = mNumStreams
    /\ \A id \in StreamIds : heap[id] \in StreamObjects
    /\ nextFrame \in 1..(MaxFrames + 1)
    /\ Len(request_queue) + Len(in_flight) <= MaxFrames

(* ---------------------------------------------------------------------- *)
(* Reading the callback log.                                               *)
(* ---------------------------------------------------------------------- *)
\* Positions of the shutter notifies, error notifies and results of frame f.
ShuttersOf(f) ==
    {i \in 1..Len(callbacks) : callbacks[i].frame_number = f
                               /\ callbacks[i].type = "CAMERA3_MSG_SHUTTER"}
ErrorsOf(f) ==
    {i \in 1..Len(callbacks) : callbacks[i].frame_number = f
                               /\ callbacks[i].type = "CAMERA3_MSG_ERROR"}
ResultsOf(f) ==
    {i \in 1..Len(callbacks) : callbacks[i].frame_number = f
                               /\ callbacks[i].type = "process_capture_result"}
NotifiesOf(f) == ShuttersOf(f) \cup ErrorsOf(f)

\* Frame f was accepted (processCaptureRequest returned 0 for it).
Accepted(f) == f < nextFrame
\* Frame f is still waiting or in flight.
Pending(f) ==
    \/ \E i \in 1..Len(request_queue) : request_queue[i].frame_number = f
    \/ \E i \in 1..Len(in_flight) : in_flight[i].frame_number = f
\* Frame f was accepted and has been completed.
Completed(f) == Accepted(f) /\ ~Pending(f)

\* This state follows the completion of a request by one of the workers.
JustCompleted ==
    lastOp.op \in {"enqueueRequestBuffers", "dequeueRequestBuffers"} /\ lastOp.completed
\* ... with an error, or without a SENSOR_TIMESTAMP in its result metadata.
JustFailed ==
    /\ JustCompleted
    /\ \/ lastOp.err # 0
       \/ Len(lastOp.request.settings.timestamp) # 1
\* ... without error and with a SENSOR_TIMESTAMP.
JustSucceeded ==
    /\ JustCompleted
    /\ lastOp.err = 0
    /\ Len(lastOp.request.settings.timestamp) = 1

(* ---------------------------------------------------------------------- *)
(* Properties.                                                             *)
(* ---------------------------------------------------------------------- *)

\* C1: every accepted and completed request has exactly one notify and
\* exactly one process_capture_result for its frame number, and the notify
\* comes before the result.
C1_SingleNotifyAndResult ==
    \A f \in 1..MaxFrames :
        Completed(f) =>
            /\ Cardinality(NotifiesOf(f)) = 1
            /\ Cardinality(ResultsOf(f)) = 1
            /\ \A i \in NotifiesOf(f), j \in ResultsOf(f) : i < j

\* C1 witness: two accepted requests have both been completed.
C1_Witness == Completed(1) /\ Completed(2) /\ Len(callbacks) = 4

\* C2: under fair scheduling of the two workers, every accepted request
\* eventually has its result callback, and never more than one.
C2_EventuallyOneResult ==
    /\ \A f \in 1..MaxFrames :
          Accepted(f) ~> (Cardinality(ResultsOf(f)) = 1)
    /\ [](\A f \in 1..MaxFrames : Cardinality(ResultsOf(f)) <= 1)

\* C2 witness: a request is in flight while an earlier one has its result.
C2_Witness ==
    /\ Cardinality(ResultsOf(1)) = 1
    /\ \E i \in 1..Len(in_flight) : in_flight[i].frame_number = 2

\* C3: a request completed with an error, or without SENSOR_TIMESTAMP in
\* its result metadata, gets no shutter notify, exactly one error notify
\* with its frame number and error code ERROR_REQUEST, and after it exactly
\* one process_capture_result.
C3_ErrorNotifyThenResult ==
    JustFailed =>
        LET f == lastOp.request.frame_number IN
        /\ ShuttersOf(f) = {}
        /\ Cardinality(ErrorsOf(f)) = 1
        /\ \A i \in ErrorsOf(f) : callbacks[i].error_code = "CAMERA3_MSG_ERROR_REQUEST"
        /\ Cardinality(ResultsOf(f)) = 1
        /\ \A i \in ErrorsOf(f), j \in ResultsOf(f) : i < j

\* C3 witness: the device delivered the frame but its result metadata has
\* no SENSOR_TIMESTAMP.
C3_Witness ==
    /\ JustFailed
    /\ lastOp.op = "dequeueRequestBuffers"
    /\ lastOp.err = 0

\* C4 (as claimed): in the result of a request that failed after
\* acceptance, every output buffer carries error status.
C4_ErrorResultBuffersInError ==
    JustFailed =>
        \A j \in ResultsOf(lastOp.request.frame_number) :
            \A b \in 1..Len(callbacks[j].output_buffers) :
                callbacks[j].output_buffers[b].status # "CAMERA3_BUFFER_STATUS_OK"

C6_InvalidRequestRejected ==
    [][(/\ lastOp'.op = "processCaptureRequest"
        /\ \/ lastOp'.null
           \/ lastOp'.settings = "empty" /\ ~mSettingsSet
           \/ lastOp'.settings = "bad"
           \/ lastOp'.no_output)
       => (/\ lastOp'.ret = -EINVAL
           /\ request_queue' = request_queue
           /\ in_flight' = in_flight
           /\ callbacks' = callbacks)]_vars

\* C6 witness: a request with valid settings and no output buffer was
\* rejected while another request was waiting.
C6_Witness ==
    /\ lastOp.op = "processCaptureRequest"
    /\ lastOp.ret = -EINVAL
    /\ ~lastOp.null
    /\ lastOp.settings = "good"
    /\ lastOp.no_output
    /\ request_queue # <<>>

\* C7: mSettingsSet is false initially and after every configureStreams
\* call, and becomes true only in a processCaptureRequest whose settings
\* passed validation; a request with empty settings submitted while it is
\* false is rejected with -EINVAL.
C7_SettingsLatch ==
    /\ ~mSettingsSet
    /\ [][/\ lastOp'.op = "configureStreams" => ~mSettingsSet'
          /\ (~mSettingsSet /\ mSettingsSet') =>
                /\ lastOp'.op = "processCaptureRequest"
                /\ ~lastOp'.null
                /\ lastOp'.settings = "good"
          /\ (/\ lastOp'.op = "processCaptureRequest"
              /\ ~lastOp'.null
              /\ lastOp'.settings = "empty"
              /\ ~mSettingsSet) => lastOp'.ret = -EINVAL]_vars

\* C7 witness: after a request was accepted and the stream was configured
\* again, a request with empty settings has been rejected.
C7_Witness ==
    /\ lastOp.op = "processCaptureRequest"
    /\ ~lastOp.null
    /\ lastOp.settings = "empty"
    /\ lastOp.ret = -EINVAL
    /\ ~mSettingsSet
    /\ mNumStreams > 0
    /\ nextFrame > 1

\* C8 (as claimed): a configureStreams call that fails leaves mStreams and
\* mNumStreams unchanged, destroys no stream of the active set and
\* destroys every stream it allocated.
C8_FailedConfigurePreservesStreams ==
    [][(lastOp'.op = "configureStreams" /\ lastOp'.ret # 0)
       => (/\ mStreams' = mStreams
           /\ mNumStreams' = mNumStreams
           /\ \A i \in 1..mNumStreams : heap'[mStreams[i]].alive
           /\ \A id \in StreamIds : ~heap[id].alive => ~heap'[id].alive)]_vars

\* C9: configureStreams succeeds only for a stream set with at least one
\* output stream, no input stream and one format, width and height for all
\* its streams; any other set is rejected with -EINVAL.
C9_OnlyUniformOutputSets ==
    lastOp.op = "configureStreams" =>
        /\ lastOp.ret = 0 => (~lastOp.null /\ lastOp.set_ok)
        /\ ~lastOp.set_ok => lastOp.ret = -EINVAL

\* C9 witness: with a stream set active, a set that breaks the conditions
\* has been rejected.
C9_Witness ==
    /\ lastOp.op = "configureStreams"
    /\ ~lastOp.null
    /\ ~lastOp.set_ok
    /\ lastOp.ret = -EINVAL
    /\ mNumStreams = 2

\* C10 (as claimed): open succeeds only on a closed camera and fails with
\* -EBUSY on an open one; close succeeds only on an open camera and fails
\* with -EINVAL on a closed one; a failing open or close leaves mBusy
\* unchanged and performs no connect or disconnect.
C10_FailingOpenCloseDoNothing ==
    [][/\ lastOp'.op = "openDevice" =>
            /\ lastOp'.ret = 0 => ~mBusy
            /\ mBusy => lastOp'.ret = -EBUSY
       /\ lastOp'.op = "close" =>
            /\ lastOp'.ret = 0 => mBusy
            /\ ~mBusy => lastOp'.ret = -EINVAL
       /\ (lastOp'.op \in {"openDevice", "close"} /\ lastOp'.ret # 0) =>
            /\ mBusy' = mBusy
            /\ lastOp'.calls = {}]_vars

\* C10 (amended): as above, but only an open that fails with -EBUSY on an
\* open camera and a close that fails with -EINVAL on a closed one perform
\* no connect or disconnect; an open of a closed camera always calls
\* connect, and when connect fails it returns connect's error and leaves
\* the camera closed.
C10_OpenClose ==
    [][/\ lastOp'.op = "openDevice" =>
            /\ lastOp'.ret = 0 => (~mBusy /\ mBusy')
            /\ mBusy => (lastOp'.ret = -EBUSY /\ lastOp'.calls = {}
                         /\ UNCHANGED devVars)
            /\ ~mBusy => lastOp'.calls = {"connect"}
            /\ lastOp'.ret # 0 => mBusy' = mBusy
       /\ lastOp'.op = "close" =>
            /\ lastOp'.ret = 0 => (mBusy /\ ~mBusy' /\ lastOp'.calls = {"disconnect"})
            /\ ~mBusy => (lastOp'.ret = -EINVAL /\ lastOp'.calls = {}
                          /\ UNCHANGED devVars)
            /\ lastOp'.ret # 0 => mBusy' = mBusy]_vars

\* C10 witness: an open on the open camera has failed with -EBUSY.
C10_Witness ==
    /\ lastOp.op = "openDevice"
    /\ lastOp.ret = -EBUSY
    /\ mBusy
    /\ mConnection = "connected"

\* C11: constructDefaultRequestSettings returns null for every template id
\* outside [1, COUNT) and for ZERO_SHUTTER_LAG and MANUAL, and returns the
\* template for PREVIEW, STILL_CAPTURE, VIDEO_RECORD and VIDEO_SNAPSHOT once
\* the template has been initialized.
C11_TemplateOrNull ==
    lastOp.op = "constructDefaultRequestSettings" =>
        /\ (\/ lastOp.type < 1
            \/ lastOp.type >= CAMERA3_TEMPLATE_COUNT
            \/ lastOp.type \in {CAMERA3_TEMPLATE_ZERO_SHUTTER_LAG,
                                CAMERA3_TEMPLATE_MANUAL}) => lastOp.ret = NULL
        /\ lastOp.type \in {CAMERA3_TEMPLATE_PREVIEW, CAMERA3_TEMPLATE_STILL_CAPTURE,
                            CAMERA3_TEMPLATE_VIDEO_RECORD,
                            CAMERA3_TEMPLATE_VIDEO_SNAPSHOT} =>
              (lastOp.ret # NULL <=> mTemplates[lastOp.type])

\* C11 witness: with the preview template built, a query for MANUAL has
\* returned null.
C11_Witness ==
    /\ lastOp.op = "constructDefaultRequestSettings"
    /\ lastOp.type = CAMERA3_TEMPLATE_MANUAL
    /\ lastOp.ret = NULL
    /\ mTemplates[CAMERA3_TEMPLATE_PREVIEW]

\* C12 (as claimed): with getInfo and constructDefaultRequestSettings called
\* from different threads, no two initializations run at the same time and
\* each cached block is built at most once.
C12_InitSerialized ==
    /\ Cardinality({t \in Threads : callers[t].pc # "idle"}) <= 1
    /\ \A b \in Blocks : inits[b] <= 1

\* C13 (as claimed): every wrapper operation called on a disconnected
\* wrapper fails with -ENODEV and issues no ioctl.
C13_DisconnectedFailsNoDevice ==
    (/\ lastOp.op \in {"StreamOn", "StreamOff", "QueryControl", "GetControl",
                       "SetControl", "SetFormat", "EnqueueBuffer", "DequeueBuffer"}
     /\ ~lastOp.connected)
    => (lastOp.ret = -ENODEV /\ lastOp.ioctls = <<>>)

\* This step is a SetFormat on a connected wrapper that follows a SetFormat
\* on the connected wrapper for the same stream.
SecondSetFormat ==
    /\ lastOp.op = "SetFormat"
    /\ lastOp.connected
    /\ device_fd
    /\ lastOp'.op = "SetFormat"
    /\ lastOp'.stream = lastOp.stream

\* The second call issues no ioctl, succeeds and leaves the cache alone.
SetFormatSkipped ==
    /\ lastOp'.ioctls = <<>>
    /\ lastOp'.ret = 0
    /\ format_' = format_
    /\ max_buffers_' = max_buffers_

\* C14 (as claimed): of two SetFormat calls in a row with equal stream
\* parameters on a connected wrapper, the second performs no ioctl,
\* succeeds, and leaves the cached format and max_buffers unchanged.
C14_SecondSetFormatSkips ==
    [][SecondSetFormat => SetFormatSkipped]_vars

\* C14 (amended): the same, when the first of the two calls succeeded.
C14_SecondSetFormatSkipsAfterSuccess ==
    [][(SecondSetFormat /\ lastOp.ret = 0) => SetFormatSkipped]_vars

\* C14 witness: a SetFormat for the cached format has returned success
\* without an ioctl.
C14_Witness ==
    /\ lastOp.op = "SetFormat"
    /\ lastOp.ret = 0
    /\ lastOp.ioctls = <<>>
    /\ lastOp.had_format
    /\ format_ = StreamFormat(lastOp.stream)
    /\ max_buffers_ >= 1

\* C15: when the format the driver returns from VIDIOC_S_FMT differs from
\* the requested one, SetFormat fails with -EINVAL, does not update the
\* cached format and does not call SetupBuffers.
C15_CoercedFormatRejected ==
    [][(/\ lastOp'.op = "SetFormat"
        /\ lastOp'.ioctls # <<>>
        /\ lastOp'.sfmt = "coerced")
       => (/\ lastOp'.ret = -EINVAL
           /\ format_' = format_
           /\ max_buffers_' = max_buffers_
           /\ "SetupBuffers" \notin lastOp'.calls
           /\ lastOp'.ioctls = <<"VIDIOC_S_FMT">>)]_vars

\* C15 witness: with a format cached, the driver has coerced another one.
C15_Witness ==
    /\ lastOp.op = "SetFormat"
    /\ lastOp.ioctls = <<"VIDIOC_S_FMT">>
    /\ lastOp.sfmt = "coerced"
    /\ lastOp.ret = -EINVAL
    /\ format_.set
    /\ format_ # StreamFormat(lastOp.stream)

\* C16 (as claimed): whenever SetFormat returns success, the max_buffers
\* it reports is the count granted by a successful VIDIOC_REQBUFS for the
\* current format and is at least 1.
C16_ReportedMaxBuffers ==
    (lastOp.op = "SetFormat" /\ lastOp.ret = 0)
    => (lastOp.out = driver.count /\ lastOp.out >= 1)

\* C17: after StreamOff, SetupBuffers or Disconnect returns on a wrapper
\* that had a format set, the gralloc helper has been told to unlock all
\* buffers and holds none, whatever the ioctl answered.
C17_AllBuffersUnlocked ==
    (\/ lastOp.op \in {"StreamOff", "Disconnect"} /\ lastOp.had_format
     \/ lastOp.op = "SetFormat" /\ "SetupBuffers" \in lastOp.calls)
    => ("unlockAllBuffers" \in lastOp.calls /\ gralloc_ = {})

\* C17 witness: StreamOff has failed in VIDIOC_STREAMOFF while a buffer was
\* locked.
C17_Witness ==
    /\ lastOp.op = "StreamOff"
    /\ lastOp.had_format
    /\ lastOp.ioctls = <<"VIDIOC_STREAMOFF">>
    /\ lastOp.ret = -ENODEV
    /\ lastOp.locked # {}
    /\ gralloc_ = {}

CaptureOrder == <<"EnqueueBuffer", "StreamOn", "DequeueBuffer", "StreamOff">>

\* C19 (as claimed): each synchronous capture calls EnqueueBuffer,
\* StreamOn, DequeueBuffer, StreamOff in that order, every StreamOn is
\* followed by a StreamOff before the capture returns, and between
\* requests the stream is off and no buffer is locked.
C19_StreamBracketsRequest ==
    /\ (lastOp.op = "enqueueBuffer" /\ lastOp.returned) =>
          /\ lastOp.trace = SubSeq(CaptureOrder, 1, Len(lastOp.trace))
          /\ "StreamOn" \in Range(lastOp.trace) => "StreamOff" \in Range(lastOp.trace)
    /\ (\A t \in Threads : capture[t].pc = "idle") =>
          (~driver.streaming /\ gralloc_ = {})

\* C20 (as claimed): with requests submitted from different threads, at
\* most one request has its buffer queued or streaming on the device.
C20_OneRequestOnDevice ==
    Cardinality({t \in Threads : capture[t].pc # "idle"}) <= 1

\* C21 (as claimed): the device lock serializes the ioctls, so no two
\* threads are inside an ioctl at once, and every read or write of
\* device_fd_, format_, max_buffers_ and extended_query_supported_ is made
\* by a thread that holds the device lock.
C21_DeviceLockGuardsMembers ==
    /\ Cardinality({t \in Threads : InIoctl(t)}) <= 1
    /\ (lastOp.op = "step" /\ lastOp.step.k \in {"read", "write"}) => lastOp.held

\* QueryControl has issued the extended, the basic query.
ExtendedIssued == "VIDIOC_QUERY_EXT_CTRL" \in Range(lastOp.ioctls)
BasicIssued == "VIDIOC_QUERYCTRL" \in Range(lastOp.ioctls)

\* C22 (as claimed): QueryControl issues VIDIOC_QUERY_EXT_CTRL first when
\* extended queries are supported; it issues VIDIOC_QUERYCTRL only when they
\* are unsupported or the driver answered this extended query with ENOTTY;
\* when the extended query succeeds the call succeeds without
\* VIDIOC_QUERYCTRL, and when it fails with another error the call returns
\* -ENODEV; after any sequence of earlier calls.
C22_FallbackOnlyOnEnotty ==
    lastOp.op = "QueryControl" =>
        /\ (lastOp.connected /\ lastOp.ext) => ExtendedIssued
        /\ BasicIssued => (~lastOp.ext \/ (ExtendedIssued /\ lastOp.a1 = ENOTTY))
        /\ (ExtendedIssued /\ lastOp.a1 = 0) => (lastOp.ret = 0 /\ ~BasicIssued)
        /\ (ExtendedIssued /\ lastOp.a1 \notin {0, ENOTTY}) =>
              (lastOp.ret = -ENODEV /\ ~BasicIssued)

\* C23: in the VIDIOC_QUERYCTRL fallback, maximum and default_value of a
\* BITMASK control are zero-extended to 64 bits and those of every other
\* type sign-extended; elems is 1; elem_size is 4, but 8 for INTEGER64 and
\* maximum + 1 for STRING (a string's maximum length is not negative).
C23_FallbackWidening ==
    (lastOp.op = "QueryControl" /\ lastOp.result # NoExtCtrl) =>
        LET q == lastOp.query
            x == lastOp.result
        IN
        /\ x.type = q.type
        /\ Low32(x.maximum) = q.maximum
        /\ Low32(x.default_value) = q.default_value
        /\ q.type = "BITMASK" =>
              /\ <<x.maximum[1], x.maximum[2]>> = <<0, 0>>
              /\ <<x.default_value[1], x.default_value[2]>> = <<0, 0>>
        /\ q.type # "BITMASK" =>
              /\ <<x.maximum[1], x.maximum[2]>> =
                    IF IsNegative(q.maximum) THEN <<LimbMax, LimbMax>> ELSE <<0, 0>>
              /\ <<x.default_value[1], x.default_value[2]>> =
                    IF IsNegative(q.default_value) THEN <<LimbMax, LimbMax>>
                    ELSE <<0, 0>>
        /\ x.elems = 1
        /\ q.type = "INTEGER64" => x.elem_size = <<0, 8>>
        /\ q.type = "STRING" =>
              /\ x.elem_size = Low32(Inc(x.maximum))
              /\ ~IsNegative(q.maximum) => <<0, 0>> \o x.elem_size = Inc(x.maximum)
        /\ q.type \notin {"INTEGER64", "STRING"} => x.elem_size = <<0, 4>>

\* C23 witness: the fallback has converted a BITMASK control with maximum
\* 0xFFFFFFFF and default 0x80000000.
C23_Witness ==
    /\ lastOp.op = "QueryControl"
    /\ lastOp.result # NoExtCtrl
    /\ lastOp.query.type = "BITMASK"
    /\ lastOp.query.maximum = <<LimbMax, LimbMax>>
    /\ lastOp.query.default_value = <<LimbSign, 0>>
    /\ lastOp.result.maximum = <<0, 0, LimbMax, LimbMax>>
    /\ lastOp.result.default_value = <<0, 0, LimbSign, 0>>

\* The values the request of lastOp holds for the control's tag.
RequestedOf == lastOp.md[lastOp.control.control_tag]
\* The request of lastOp holds the control's tag.
TagRequested == lastOp.control.control_tag \in DOMAIN lastOp.md

\* C24: SupportsRequestValues returns true when the control's tag is absent
\* from the request; false when the tag carries a number of values other
\* than 1, with or without options; and for exactly one value what the
\* options' IsSupported says, or true when the control has no options.
C24_SupportsRequestValues ==
    lastOp.op = "SupportsRequestValues" =>
        /\ ~TagRequested => lastOp.ret
        /\ (TagRequested /\ Len(RequestedOf) # 1) => ~lastOp.ret
        /\ (TagRequested /\ Len(RequestedOf) = 1) =>
              (lastOp.ret <=> (\/ ~lastOp.control.has_options
                               \/ RequestedOf[1] \in Range(lastOp.control.options)))

\* C24 witness: a control without options has refused three values.
C24_Witness ==
    /\ lastOp.op = "SupportsRequestValues"
    /\ ~lastOp.control.has_options
    /\ TagRequested
    /\ Len(RequestedOf) = 3
    /\ ~lastOp.ret

\* The positions of the SetValue calls of lastOp.
SetValueCalls == {i \in 1..Len(lastOp.calls) : lastOp.calls[i].fn = "SetValue"}

\* C25: SetRequestValues calls the delegate's SetValue at most once and only
\* after the validation, and only when the validation succeeded; it
\* returns -EINVAL without SetValue when the value is unsupported or the
\* number of values is not 1, returns 0 without SetValue when the tag is
\* absent, and returns the delegate's error when the write fails.
C25_ValidateThenWrite ==
    lastOp.op = "SetRequestValues" =>
        LET valid == \/ ~TagRequested
                     \/ /\ Len(RequestedOf) = 1
                        /\ \/ ~lastOp.control.has_options
                           \/ RequestedOf[1] \in Range(lastOp.control.options)
        IN
        /\ Cardinality(SetValueCalls) <= 1
        /\ \A i \in SetValueCalls :
              /\ valid
              /\ i = Len(lastOp.calls)
              /\ lastOp.calls[i].arg = RequestedOf[1]
        /\ ~valid => (lastOp.ret = -EINVAL /\ SetValueCalls = {})
        /\ ~TagRequested => (lastOp.ret = 0 /\ SetValueCalls = {})
        /\ (TagRequested /\ valid) =>
              (Cardinality(SetValueCalls) = 1 /\ lastOp.ret = lastOp.set_res)

\* C25 witness: the value passed the validation and the write failed.
C25_Witness ==
    /\ lastOp.op = "SetRequestValues"
    /\ lastOp.control.has_options
    /\ Len(lastOp.calls) = 2
    /\ lastOp.calls[1].fn = "IsSupported"
    /\ lastOp.calls[2].fn = "SetValue"
    /\ lastOp.ret = -ENODEV

\* C26: for a menu with a non-empty list of options DefaultValueForTemplate
\* succeeds for every template type in [1, COUNT) with a value of the list;
\* with an empty list it returns -ENODEV for every template type;
\* IsSupported is true exactly for the values of the list.
C26_MenuDefaults ==
    /\ lastOp.op = "DefaultValueForTemplate" =>
          /\ lastOp.options # <<>> =>
                (lastOp.ret = 0 /\ lastOp.value \in Range(lastOp.options))
          /\ lastOp.options = <<>> => lastOp.ret = -ENODEV
    /\ lastOp.op = "IsSupported" =>
          (lastOp.ret <=> lastOp.value \in Range(lastOp.options))

\* C26 witness: the empty menu has refused a default for the last template
\* type.
C26_Witness ==
    /\ lastOp.op = "DefaultValueForTemplate"
    /\ lastOp.options = <<>>
    /\ lastOp.template_type = CAMERA3_TEMPLATE_COUNT - 1
    /\ lastOp.ret = -ENODEV

\* The component accepts what the request of lastOp holds for its tag.
AcceptsItsSlice(component) ==
    \/ component.kind = "fixed"
    \/ component.control_tag \notin DOMAIN lastOp.md
    \/ /\ Len(lastOp.md[component.control_tag]) = 1
       /\ lastOp.md[component.control_tag][1] \in Range(component.options)

\* The request of lastOp is one that IsValidRequest accepts.
RequestIsValid == \A i \in 1..Len(components_) : AcceptsItsSlice(components_[i])

\* The driver's control of the component at position i is as it was before
\* the call of lastOp.
ControlUntouched(i) ==
    components_[i].kind = "enum" =>
        controls_[components_[i].v4l2_control] = lastOp.before[components_[i].v4l2_control]

\* C27: when IsValidRequest(md) is false, SetRequestSettings(md) fails, hands
\* no value to any component's delegate and leaves the driver's controls as
\* they were; when it is true, the components are applied in the order of
\* the registry, and the first failure of a SetRequestValues is returned with
\* no later component applied.
C27_ValidateBeforeApply ==
    lastOp.op = "SetRequestSettings" =>
        /\ ~RequestIsValid =>
              /\ lastOp.ret # 0
              /\ lastOp.writes = <<>>
              /\ controls_ = lastOp.before
        /\ RequestIsValid =>
              LET last == Len(lastOp.applied) IN
              /\ \A k \in 1..last : lastOp.applied[k] = k
              /\ lastOp.ret = 0 => last = Len(components_)
              /\ lastOp.ret # 0 =>
                    /\ last >= 1
                    /\ components_[last].kind = "enum"
                    /\ components_[last].v4l2_control = lastOp.fail_cid
                    /\ components_[last].control_tag \in DOMAIN lastOp.md
                    /\ lastOp.ret = -ENODEV
                    /\ \A i \in 1..(last - 1) :
                          ~(/\ components_[i].kind = "enum"
                            /\ components_[i].v4l2_control = lastOp.fail_cid
                            /\ components_[i].control_tag \in DOMAIN lastOp.md)
                    /\ \A i \in last..Len(components_) : ControlUntouched(i)
              /\ \A k \in 1..Len(lastOp.writes) : lastOp.writes[k].index <= last

\* C27 witness: a request whose exposure mode the exposure control accepts
\* and whose edge mode is refused was applied.
C27_Witness ==
    /\ lastOp.op = "SetRequestSettings"
    /\ ~RequestIsValid
    /\ "ANDROID_CONTROL_AE_MODE" \in DOMAIN lastOp.md
    /\ \E i \in 1..Len(components_) :
          /\ components_[i].kind = "enum"
          /\ components_[i].control_tag = "ANDROID_CONTROL_AE_MODE"
    /\ lastOp.ret = -EINVAL

\* The control tags of the enum controls the constructor asks for.
EnumControlSlots ==
    {"ANDROID_CONTROL_AE_MODE", "ANDROID_CONTROL_AE_ANTIBANDING_MODE",
     "ANDROID_CONTROL_AWB_MODE", "ANDROID_CONTROL_SCENE_MODE",
     "ANDROID_CONTROL_EFFECT_MODE", "ANDROID_CONTROL_VIDEO_STABILIZATION_MODE"}

\* C28: in the registry V4L2Metadata builds, whichever enum controls are
\* made and whichever fall back to an ignored control, any two components
\* own disjoint sets of static, control and dynamic tags, and each enum
\* control slot contributes exactly one component.
C28_TagsDisjoint ==
    Built =>
        /\ \A i, j \in 1..Len(components_) :
              i # j => TagsOf(components_[i]) \cap TagsOf(components_[j]) = {}
        /\ \A slot \in EnumControlSlots :
              Cardinality({i \in 1..Len(components_) :
                              slot \in ControlTags(components_[i])}) = 1

\* C28 witness: the white balance fell back twice, to an ignored control,
\* while the exposure mode is an enum control.
C28_Witness ==
    /\ Built
    /\ \E i \in 1..Len(components_) :
          /\ components_[i].kind = "ignored"
          /\ components_[i].control_tag = "ANDROID_CONTROL_AWB_MODE"
    /\ \E i \in 1..Len(components_) :
          /\ components_[i].kind = "enum"
          /\ components_[i].control_tag = "ANDROID_CONTROL_AE_MODE"

\* C29: for every control of the registry, an ignored control with more
\* than one option included, the FillResultMetadata that follows a
\* successful SetRequestSettings reports each value the request set, or the
\* value the driver made of it.
C29_RoundTrip ==
    [][(/\ lastOp.op = "SetRequestSettings"
        /\ lastOp.ret = 0
        /\ lastOp'.op = "FillResultMetadata"
        /\ lastOp'.ret = 0)
       => \A k \in 1..Len(lastOp.writes) :
             LET w == lastOp.writes[k]
                 component == components_[w.index]
             IN \/ lastOp'.metadata[w.tag] = <<w.value>>
                \/ /\ component.kind = "enum"
                   /\ lastOp'.metadata[w.tag] =
                         <<ToMetadata(component.v4l2_to_metadata,
                                      controls_[component.v4l2_control])>>]_vars

\* The frame numbers of a queue of requests, and of the results delivered.
FramesOf(queue) == [i \in 1..Len(queue) |-> queue[i].frame_number]
Increasing(frames) ==
    \A i, j \in 1..Len(frames) : i < j => frames[i] < frames[j]
ResultFrames ==
    FramesOf(SelectSeq(callbacks, LAMBDA call : call.type = "process_capture_result"))

Shutters == SelectSeq(callbacks, LAMBDA call : call.type = "CAMERA3_MSG_SHUTTER")

\* C31: over the requests completed successfully on the camera, the
\* shutter timestamps strictly increase with the frame number: the shutter
\* notify of a later frame carries a greater timestamp than that of every
\* earlier frame.
C31_ShutterTimestampsIncrease ==
    \A i, j \in 1..Len(Shutters) :
        Shutters[i].frame_number < Shutters[j].frame_number
            => Shutters[i].timestamp < Shutters[j].timestamp

\* C32: when the wait on the acquire fence of an output buffer times out,
\* the request is failed at the request level: processCaptureRequest makes
\* an error notify with CAMERA3_MSG_ERROR_REQUEST for the frame and does not
\* report a device error, so that the camera stays usable.
C32_FenceTimeoutFailsRequest ==
    [][(/\ lastOp'.op = "processCaptureRequest"
        /\ ~lastOp'.null
        /\ lastOp'.wait.reached
        /\ lastOp'.wait.res = -ETIME)
       => /\ lastOp'.ret # -ENODEV
          /\ mBusy'
          /\ \E i \in (Len(callbacks) + 1)..Len(callbacks') :
                /\ callbacks'[i].type = "CAMERA3_MSG_ERROR"
                /\ callbacks'[i].error_code = "CAMERA3_MSG_ERROR_REQUEST"
                /\ callbacks'[i].frame_number = nextFrame]_vars

\* C33: for every output buffer on which the wait on the acquire fence was
\* performed, the release fence of the buffer is -1 when
\* preprocessCaptureBuffer returns, whether the wait succeeded, timed out
\* or failed with another error.
C33_ReleaseFenceCleared ==
    (/\ lastOp.op = "preprocessCaptureBuffer"
     /\ lastOp.before.acquire_fence # -1)
        => lastOp.buffer.release_fence = -1

\* The ranges of lastOp, the flat ones among them, and the range of lastOp
\* is as close to the desired one as any range of a set.
FpsRanges == Range(lastOp.mFpsRanges)
FlatFpsRanges == {r \in FpsRanges : r[1] = r[2]}
ClosestIn(ranges, min, max) ==
    /\ lastOp.fps_range \in ranges
    /\ \A r \in ranges :
          Abs(lastOp.fps_range[1] - min) + Abs(lastOp.fps_range[2] - max)
             <= Abs(r[1] - min) + Abs(r[2] - max)

\* C34: for every set of fps ranges that initCharacteristics produces, the
\* still-capture template carries a range that minimizes |min-5|+|max-30|
\* over the available ranges, and the preview, video-record and
\* video-snapshot templates carry a range that minimizes |min-30|+|max-30|
\* over the available ranges with min = max; both are defined.
C34_FpsRangeSelection ==
    (lastOp.op = "initTemplates" /\ lastOp.res = 0) =>
        /\ FpsRanges # {}
        /\ lastOp.template_id = CAMERA3_TEMPLATE_STILL_CAPTURE =>
              ClosestIn(FpsRanges, 5, 30)
        /\ lastOp.template_id \in {CAMERA3_TEMPLATE_PREVIEW, CAMERA3_TEMPLATE_VIDEO_RECORD,
                                   CAMERA3_TEMPLATE_VIDEO_SNAPSHOT} =>
              ClosestIn(FlatFpsRanges, 30, 30)

\* C34 witness: with a driver that offers 5 to 30 frames per second the
\* still-capture template carries the variable range, which is not flat.
C34_Witness ==
    /\ lastOp.op = "initTemplates"
    /\ lastOp.res = 0
    /\ lastOp.template_id = CAMERA3_TEMPLATE_STILL_CAPTURE
    /\ FlatFpsRanges # FpsRanges
    /\ lastOp.fps_range = <<5, 30>>

\* C35: after any sequence of openDevice and close calls in which the
\* connection to the device may fail, the camera holds a Connection object
\* exactly when it is open; an openDevice that fails because the connection
\* failed leaves the camera closed with no connection held.
C35_ConnectionIffOpen == (mConnection # "none") <=> mBusy

\* C36: over any sequence of set_format calls on a connected wrapper, a cached
\* format equals the format the driver applied most recently through
\* VIDIOC_S_FMT, so a call skipped as "already in correct format" finds the
\* device in that format.
C36_CachedFormatIsDriverFormat ==
    (device_fd /\ format_.set) => format_ = appliedFormat

\* C37: under any interleaving of wrapper operations called from different
\* threads, whenever the wrapper is disconnected and no wrapper operation is
\* in progress, the cached format is empty and max_buffers is 0.
C37_DisconnectedWrapperIsReset ==
    (~device_fd /\ \A t \in Threads : wrapperCalls[t] = NotCalling)
        => (format_ = NoFormat /\ max_buffers_ = 0)

\* C38: under any interleaving of configure_streams and
\* process_capture_request on different threads, once a configure_streams call
\* has returned, a request with empty settings is accepted only if some
\* request with non-empty settings passed validation after that call began.
C38_EmptySettingsNeedValidatedRequest ==
    (/\ lastOp.op = "processCaptureRequest"
     /\ "accepted" \in DOMAIN lastOp
     /\ lastOp.accepted
     /\ lastOp.settings = "empty"
     /\ lastOp.after_configure)
        => lastOp.validated

\* C39: a process_capture_request call that returns an error (also for a
\* request with valid settings but no output buffers, or one whose
\* acquire-fence wait fails) leaves settings_set unchanged.
C39_RejectedRequestKeepsSettingsSet ==
    [][(lastOp'.op = "processCaptureRequest" /\ lastOp'.ret # 0)
          => mSettingsSet' = mSettingsSet]_vars

\* C40: when configure_streams fails while processing stream i of n, the
\* cleanup reads and destroys only entries of the new stream array that were
\* assigned during this call: it reads no unassigned entry and destroys no
\* stream that was marked for reuse.
C40_CleanupReadsAssignedEntries ==
    [][(lastOp'.op = "configureStreams" /\ "unassigned" \in DOMAIN lastOp')
          => (/\ lastOp'.unassigned = 0
              /\ lastOp'.reused_destroyed = {})]_vars

====
